---- MODULE Spec2Model ----
(***************************************************************************)
(* cloudsql-exporter: the backup / restore orchestration core.             *)
(*                                                                         *)
(*   WaitForSQLOperation   the poll loop over a long-running operation     *)
(*   Add/RemoveRoleBindingToGCSBucket   read-modify-write of a bucket      *)
(*                         policy                                          *)
(*   Backup                pkg/backup: per instance grant, export, revoke  *)
(*   Restore               CloudSQL.Restore: provision, import, validate   *)
(*                                                                         *)
(* Go error values are modelled by their text, a sequence of tokens; the   *)
(* nil error is the empty sequence.                                        *)
(***************************************************************************)
EXTENDS Integers, Sequences, FiniteSets, TLC

\* ------------------------------------------------------------------ bounds

\* Polls counted exactly up to this number (the counters saturate there).
MaxPolls == 2
\* Most databases the enumerator reports for one instance.
MaxDbs == 2
\* Most user names in a user-list artifact.
MaxUsers == 2
\* Tables a statistics map can hold.
MaxTables == 2
\* Longest list of error messages an operation reports.
MaxErrs == 2
\* Role-binding calls made in sequence on one bucket.
MaxCalls == 2
\* Most databases the remote API reports for one instance.
MaxReported == 3
\* Most hyphen-separated tokens in a database name.
MaxNameTokens == 3

\* ------------------------------------------------------------- error values

Nil == <<>>

Min(a, b) == IF a < b THEN a ELSE b

BoundedSeq(S, n) == UNION {[1..k -> S] : k \in 0..n}

\* Whether the token sequence sub occurs contiguously in text.
Contains(text, sub) ==
  \E i \in 0..(Len(text) - Len(sub)) :
    \A j \in 1..Len(sub) : text[i + j] = sub[j]

\* fmt's %s of a []string: the elements separated by one space, in brackets.
RECURSIVE JoinSpace(_)
JoinSpace(ss) ==
  IF Len(ss) = 0 THEN <<>>
  ELSE IF Len(ss) = 1 THEN <<ss[1]>>
  ELSE <<ss[1], " ">> \o JoinSpace(Tail(ss))

FormatStrings(ss) == <<"[">> \o JoinSpace(ss) \o <<"]">>

\* Errors a remote API call itself returns (a *googleapi.Error).
ApiErrors == {<<"googleapi: Error 403">>, <<"googleapi: Error 500">>}

\* --------------------------------------------------- WaitForSQLOperation

NilOp == "nil"
OpNames == {"op-1"}

Messages == {"m1", "m2"}
\* The API populates an operation's error only when errors occurred: the
\* list of a present error is never empty.
MsgLists == BoundedSeq(Messages, MaxErrs) \ {<<>>}

NoOpError == [present |-> FALSE, errors |-> <<>>]

\* What Operations.Get(...).Do() can return: an error of the call, or the
\* operation with its status and, once it has ended, its error list.
FetchResponses ==
  {[err |-> e, status |-> "", opError |-> NoOpError] : e \in ApiErrors}
  \cup {[err |-> Nil, status |-> s, opError |-> NoOpError] :
          s \in {"PENDING", "RUNNING", "DONE"}}
  \cup {[err |-> Nil, status |-> "DONE",
         opError |-> [present |-> TRUE, errors |-> m]] : m \in MsgLists}

NoFetch == [err |-> Nil, status |-> "none", opError |-> NoOpError]

ErrNilOp == <<"got nil op">>
ErrTimeout == <<"timeout reached">>

\* The messages the failure is built from: the loop appends every e.Message.
CollectMessagesFirstOnly(errs) == IF Len(errs) = 0 THEN <<>> ELSE <<errs[1]>>

CollectMessages(errs) == [i \in 1..Len(errs) |-> errs[i]]

ErrOpFailed(errs) == <<"operation failed: ">> \o FormatStrings(CollectMessages(errs))

VARIABLES
  wpc,          \* where WaitForSQLOperation is: idle, call, select, sleep, fetch, ret
  wop,          \* the operation handle it was called with
  ctxDone,      \* whether c.ctx is cancelled
  wlast,        \* the most recent response of Operations.Get
  wres,         \* the error it returned (Nil: success)
  nFetch,       \* status fetches issued by this call
  nSleep,       \* sleeps started by this call
  cancelledIn,  \* where the wait was when the cancellation fired
  wokeAfterCancel,  \* a sleep ran to its end after the cancellation
  fetchAfterCancel  \* a status fetch was issued after the cancellation

VARIABLES
  policy,       \* the bucket's IAM policy: entries held per <<role, member>>
  revokeLog     \* every RemoveRoleBindingToGCSBucket call: <<role, member, error>>

VARIABLES
  bpc,          \* where Backup is
  bcmd,         \* how Backup was started: by the backup command (with its
                \* --stats flag) or by a direct call
  bopts,        \* BackupOptions: EnsureIamBindings, EnsureIamBindingsTemp,
                \* ExportStats, Compression
  breported,    \* per enumerated instance, the databases Databases.List reported
  bloc,         \* backupLocation of the loop's instance
  bwritten,     \* the user-list and statistics artifacts written to the bucket
  bconnected,   \* a direct database connection was opened (conn.Connect)
  binstances,   \* the enumerated instances, each with its databases
  btodo,        \* instances the range loop has not visited yet
  bcur,         \* the loop's instance
  bsa,          \* sqlAdminSvcAccount of the loop's instance
  bdbIdx,       \* ExportCloudSQLDatabase: index of the database being exported
  blocs,        \* ExportCloudSQLDatabase: locations collected so far
  bdefers,      \* the deferred revocations registered so far (a stack)
  bdstep,       \* the statement the running deferred function is at
  backupPaths,  \* the named result backupPaths
  rerr,         \* the named result rerr
  bfirst,       \* the first error of the run: of a return statement or of a
                \* deferred revocation
  bobtained     \* the service accounts obtained in temporary mode

VARIABLES
  rpc,          \* where Restore is
  ropts,        \* RestoreOptions: StoreSecret, File, Bucket
  rtrace,       \* the calls Restore has made so far, each with its outcome
                \* (the creations of the database and of users left out)
  rpassword,    \* where the local password comes from: generated or the secret store
  rusers,       \* users: the lines of the user-list artifact
  rui,          \* index of the user the loop is at
  rsa,          \* sqlAdminSvcAccount of the restore instance
  rdeferred,    \* the cleanup function has been deferred
  rdstep,       \* the statement the running cleanup function is at
  rstats,       \* stats: the statistics computed after the import
  rstatsBackup, \* statsBackup: the statistics decoded from the artifact
  rtoVisit,     \* keys of stats the range loop has not visited yet
  rvalErrs,     \* validationErrors
  rcompared,    \* the comparison loop was entered
  rret,         \* what Restore returned: the value and the error
  grantLog,     \* every AddRoleBindingToGCSBucket call of Restore: <<role, sa, error>>
  viewerHeld    \* the service account held objectViewer at some point of the run

VARIABLES
  pcalls        \* the role-binding calls made on the bucket, in order, each with
                \* its arguments, the policy before and after, and its result

VARIABLES
  dbReported,   \* list.Items: the database names Databases.List reports
  dbListed      \* what ListDatabasesForCloudSQLInstance returned

VARIABLES
  lloc,         \* a Location value b
  ldatabase,    \* the database argument of b.DatabaseLocation and b.StatsLocation
  lshape,       \* the parts a file path handed to NewLocation was written from
  lfile,        \* the file path: b.DatabaseLocation(database), or the one handed in
  lparsed,      \* NewLocation(file)
  luser,        \* b.UserLocation()
  lstats        \* b.StatsLocation(database)

VARIABLES
  gversion,     \* how often the bucket's policy has been written (its etag)
  gruns,        \* per concurrent run: its calls, the call it is at, where that
                \* call is, the policy it read and the error that ended the run
  gevents       \* the reads and writes of the policy by the runs, in order

VARIABLES
  einstanceID,  \* EnumerateCloudSQLDatabaseInstances: the instanceID argument
  eproject,     \* the instance names Instances.List reports for the project
  epc,          \* where the enumeration is
  enumerated,   \* the local slice enumerated, the part not yet ranged over
  einstances,   \* the local map instances
  elistCalls,   \* how often Instances.List was called
  eret          \* what the enumeration returned

VARIABLES
  srun,         \* which Restore run this is, counted from the first
  spc,          \* where the run is in the instance part of Restore
  sopts,        \* opts.StoreSecret of the run
  spassword,    \* the local password of the run
  sfound,       \* savePassword: the secret GetSecret returned is not nil
  sinstance,    \* the restore instance: whether it exists, its root password,
                \* and whether the run that created it was to store the secret
  ssecret,      \* the secret under the uppercased instance name: its versions
  serr          \* the error the run ended with

enumVars == <<einstanceID, eproject, epc, enumerated, einstances, elistCalls, eret>>

secretVars == <<srun, spc, sopts, spassword, sfound, sinstance, ssecret, serr>>

locVars == <<lloc, ldatabase, lshape, lfile, lparsed, luser, lstats>>

raceVars == <<gversion, gruns, gevents>>

unitVars == <<pcalls, dbReported, dbListed, locVars, raceVars, enumVars, secretVars>>

waitVars == <<wpc, wop, ctxDone, wlast, wres, nFetch, nSleep,
              cancelledIn, wokeAfterCancel, fetchAfterCancel>>

policyVars == <<policy, revokeLog>>

bartifacts == <<bloc, bwritten, bconnected>>

backupVars == <<bpc, bcmd, bopts, breported, bartifacts, binstances, btodo, bcur, bsa, bdbIdx, blocs,
                bdefers, bdstep, backupPaths, rerr, bfirst, bobtained>>

restoreVars == <<rpc, ropts, rtrace, rpassword, rusers, rui, rsa, rdeferred, rdstep,
                 rstats, rstatsBackup, rtoVisit, rvalErrs, rcompared, rret,
                 grantLog, viewerHeld>>

callerVars == <<policyVars, backupVars, restoreVars>>

vars == <<waitVars, callerVars, unitVars>>

\* The value of a result before the call has returned.
NotReturned == [returned |-> FALSE]

PolicyUnitIdle == pcalls = <<>>
ListUnitIdle == dbReported = <<>> /\ dbListed = NotReturned
NoLocation ==
  [Bucket |-> <<>>, Database |-> <<>>, Instance |-> <<>>, Path |-> <<>>,
   Time |-> <<>>, Compression |-> FALSE]
NoShape == [given |-> FALSE]
NoString == <<>>
LocUnitIdle ==
  /\ lloc = NoLocation /\ ldatabase = NoString /\ lshape = NoShape
  /\ lfile = NoString /\ lparsed = NotReturned
  /\ luser = NoString /\ lstats = NoString
RaceUnitIdle == gversion = 0 /\ gruns = <<>> /\ gevents = <<>>
NoSecret == [exists |-> FALSE, versions |-> <<>>]
NoRestoreInstance == [exists |-> FALSE, RootPassword |-> 0, stored |-> FALSE]
EnumUnitIdle ==
  /\ einstanceID = "" /\ eproject = <<>> /\ epc = "idle" /\ enumerated = <<>>
  /\ einstances = <<>> /\ elistCalls = 0 /\ eret = NotReturned
SecretUnitIdle ==
  /\ srun = 0 /\ spc = "idle" /\ sopts = FALSE /\ spassword = 0 /\ sfound = FALSE
  /\ sinstance = NoRestoreInstance /\ ssecret = NoSecret /\ serr = <<>>
MoreUnitsIdle == EnumUnitIdle /\ SecretUnitIdle
UnitIdle == PolicyUnitIdle /\ ListUnitIdle /\ LocUnitIdle /\ RaceUnitIdle /\ MoreUnitsIdle

WaitIdle ==
  /\ wpc = "idle" /\ wop = NilOp /\ wlast = NoFetch /\ wres = Nil
  /\ nFetch = 0 /\ nSleep = 0
  /\ cancelledIn = "none" /\ wokeAfterCancel = FALSE /\ fetchAfterCancel = FALSE

\* if op == nil { return errors.New("got nil op") }
NilCheckMissing(op) == FALSE

NilCheck(op) == op = NilOp

WaitEnter ==
  /\ wpc = "call"
  /\ IF NilCheck(wop)
       THEN wpc' = "ret" /\ wres' = ErrNilOp
       ELSE wpc' = "select" /\ wres' = wres
  /\ UNCHANGED <<wop, ctxDone, wlast, nFetch, nSleep,
                 cancelledIn, wokeAfterCancel, fetchAfterCancel>>
  /\ UNCHANGED <<callerVars, unitVars>>

\* select { case <-c.ctx.Done(): return ...; default: time.Sleep(timeout) ... }
WaitSelect ==
  /\ wpc = "select"
  /\ IF ctxDone
       THEN wpc' = "ret" /\ wres' = ErrTimeout /\ nSleep' = nSleep
       ELSE wpc' = "sleep" /\ wres' = wres /\ nSleep' = Min(nSleep + 1, MaxPolls)
  /\ UNCHANGED <<wop, ctxDone, wlast, nFetch,
                 cancelledIn, wokeAfterCancel, fetchAfterCancel>>
  /\ UNCHANGED <<callerVars, unitVars>>

\* time.Sleep returns after the interval; nothing else ends it.
WaitWake ==
  /\ wpc = "sleep"
  /\ wpc' = "fetch"
  /\ wokeAfterCancel' = (wokeAfterCancel \/ ctxDone)
  /\ UNCHANGED <<wop, ctxDone, wlast, wres, nFetch, nSleep,
                 cancelledIn, fetchAfterCancel>>
  /\ UNCHANGED <<callerVars, unitVars>>

\* The outcome of one fetched response: "loop" or the returned error.
FetchOutcomeDoneFirst(r) ==
  IF r.err # Nil THEN [ret |-> TRUE, err |-> r.err]
  ELSE IF r.status = "DONE" THEN [ret |-> TRUE, err |-> Nil]
  ELSE IF r.opError.present THEN [ret |-> TRUE, err |-> ErrOpFailed(r.opError.errors)]
  ELSE [ret |-> FALSE, err |-> Nil]

FetchOutcomeRetriesError(r) ==
  IF r.err # Nil THEN [ret |-> FALSE, err |-> Nil]
  ELSE FetchOutcomeDoneFirst(r)

FetchOutcome(r) ==
  IF r.err # Nil THEN [ret |-> TRUE, err |-> r.err]
  ELSE IF r.opError.present THEN [ret |-> TRUE, err |-> ErrOpFailed(r.opError.errors)]
  ELSE IF r.status = "DONE" THEN [ret |-> TRUE, err |-> Nil]
  ELSE [ret |-> FALSE, err |-> Nil]

WaitFetch ==
  /\ wpc = "fetch"
  /\ \E r \in FetchResponses :
       /\ wlast' = r
       /\ wpc' = IF FetchOutcome(r).ret THEN "ret" ELSE "select"
       /\ wres' = FetchOutcome(r).err
  /\ nFetch' = Min(nFetch + 1, MaxPolls)
  /\ fetchAfterCancel' = (fetchAfterCancel \/ ctxDone)
  /\ UNCHANGED <<wop, ctxDone, nSleep, cancelledIn, wokeAfterCancel>>
  /\ UNCHANGED <<callerVars, unitVars>>

\* The cancellation signal of c.ctx fires (from outside the wait).
Cancel ==
  /\ ~ctxDone
  /\ wpc \in {"select", "sleep", "fetch"}
  /\ ctxDone' = TRUE
  /\ cancelledIn' = wpc
  /\ UNCHANGED <<wpc, wop, wlast, wres, nFetch, nSleep,
                 wokeAfterCancel, fetchAfterCancel>>
  /\ UNCHANGED <<callerVars, unitVars>>

\* ------------------------------------------------- the bucket's IAM policy

RoleObjectCreator == "roles/storage.objectCreator"
RoleObjectViewer == "roles/storage.objectViewer"
RoleLegacyBucketReader == "roles/storage.legacyBucketReader"

\* svcAcctMember := fmt.Sprintf("serviceAccount:%s", sqlAdminSvcAccount)
SvcAcctMember(sa) == <<"serviceAccount:", sa>>

\* iam.Policy: for each <<role, member>> it holds, the number of membership
\* entries of the member under the role.
PolicyOf(bindings) == [b \in bindings |-> 1]
EmptyPolicy == PolicyOf({})
Entries(pol, member, role) ==
  IF <<role, member>> \in DOMAIN pol THEN pol[<<role, member>>] ELSE 0

\* policy.HasRole, policy.Add (adds the member if it is not present) and
\* policy.Remove (removes one entry of the member if it is present).
HasRole(pol, member, role) == Entries(pol, member, role) > 0
PolicyAdd(pol, member, role) ==
  IF HasRole(pol, member, role) THEN pol
  ELSE [b \in DOMAIN pol \cup {<<role, member>>} |->
          IF b = <<role, member>> THEN 1 ELSE pol[b]]
PolicyRemoveRole(pol, member, role) ==
  [b \in {x \in DOMAIN pol : x[1] # role} |-> pol[b]]
PolicyRemove(pol, member, role) ==
  IF Entries(pol, member, role) > 1
    THEN [pol EXCEPT ![<<role, member>>] = @ - 1]
    ELSE [b \in DOMAIN pol \ {<<role, member>>} |-> pol[b]]

\* How the two remote calls of one read-modify-write go.
GrantIO == {"ok", "getfail", "setfail"}
ErrGetPolicy == <<"googleapi: Error 403", "getIamPolicy">>
ErrSetPolicy == <<"googleapi: Error 403", "setIamPolicy">>

\* AddRoleBindingToGCSBucket: the policy it leaves, the error it returns and
\* whether it wrote the policy back, and the SetPolicy calls it issued.
AddRoleBindingAppends(pol, role, sa, io) ==
  LET b == <<role, SvcAcctMember(sa)>> IN
  IF io = "getfail" THEN [policy |-> pol, err |-> ErrGetPolicy, wrote |-> FALSE, setCalls |-> 0]
  ELSE IF io = "setfail" THEN [policy |-> pol, err |-> ErrSetPolicy, wrote |-> FALSE, setCalls |-> 1]
  ELSE [policy |-> [x \in DOMAIN pol \cup {b} |->
                      IF x = b THEN Entries(pol, b[2], role) + 1 ELSE pol[x]],
        err |-> Nil, wrote |-> TRUE, setCalls |-> 1]

AddRoleBindingToGCSBucket(pol, role, sa, io) ==
  IF io = "getfail" THEN [policy |-> pol, err |-> ErrGetPolicy, wrote |-> FALSE, setCalls |-> 0]
  ELSE IF HasRole(pol, SvcAcctMember(sa), role)
    THEN [policy |-> pol, err |-> Nil, wrote |-> FALSE, setCalls |-> 0]
  ELSE IF io = "setfail" THEN [policy |-> pol, err |-> ErrSetPolicy, wrote |-> FALSE, setCalls |-> 1]
  ELSE [policy |-> PolicyAdd(pol, SvcAcctMember(sa), role), err |-> Nil, wrote |-> TRUE,
        setCalls |-> 1]

RemoveRoleBindingToGCSBucket(pol, role, sa, io) ==
  IF io = "getfail" THEN [policy |-> pol, err |-> ErrGetPolicy, wrote |-> FALSE, setCalls |-> 0]
  ELSE IF ~HasRole(pol, SvcAcctMember(sa), role)
    THEN [policy |-> pol, err |-> Nil, wrote |-> FALSE, setCalls |-> 0]
  ELSE IF io = "setfail" THEN [policy |-> pol, err |-> ErrSetPolicy, wrote |-> FALSE, setCalls |-> 1]
  ELSE [policy |-> PolicyRemove(pol, SvcAcctMember(sa), role), err |-> Nil, wrote |-> TRUE,
        setCalls |-> 1]

\* A binding of some other principal, which no run touches.
UnrelatedBinding == <<RoleObjectViewer, <<"user:", "alice">>>>

\* Role-binding calls made in sequence on one bucket, each recorded with the
\* policy it found and the policy it left.
PolicyRoles == {RoleObjectCreator, RoleObjectViewer}
PolicySvcAccts == {<<"sa-of", "i1">>, <<"sa-of", "i2">>}
PolicyStarts ==
  {PolicyOf({UnrelatedBinding} \cup b) :
     b \in SUBSET {<<r, SvcAcctMember(sa)>> : r \in PolicyRoles, sa \in PolicySvcAccts}}

PolicyCall(op, role, sa, io) ==
  LET r == IF op = "add" THEN AddRoleBindingToGCSBucket(policy, role, sa, io)
                         ELSE RemoveRoleBindingToGCSBucket(policy, role, sa, io) IN
  /\ Len(pcalls) < MaxCalls
  /\ policy' = r.policy
  /\ pcalls' = Append(pcalls, [op |-> op, role |-> role, sa |-> sa, io |-> io,
                               before |-> policy, after |-> r.policy,
                               err |-> r.err, setCalls |-> r.setCalls])
  /\ UNCHANGED <<revokeLog, waitVars, backupVars, restoreVars, dbReported, dbListed,
                 locVars, raceVars, enumVars, secretVars>>

PolicyGrant == \E role \in PolicyRoles, sa \in PolicySvcAccts, io \in GrantIO :
  PolicyCall("add", role, sa, io)

PolicyRevoke == \E role \in PolicyRoles, sa \in PolicySvcAccts, io \in GrantIO :
  PolicyCall("remove", role, sa, io)

\* ------------------------------------------------------ concurrent runs

\* Runs that use the bucket at the same time, each making its role-binding
\* calls one after another: a grant, then the revocation of it, and so on.
RaceRuns == {"A", "B"}
RaceRole == RoleObjectCreator
RECURSIVE GrantThenRevoke(_, _)
GrantThenRevoke(sa, n) ==
  IF n = 0 THEN <<>>
  ELSE Append(GrantThenRevoke(sa, n - 1),
              [op |-> IF n % 2 = 1 THEN "add" ELSE "remove", sa |-> sa])
RacePrograms == {GrantThenRevoke(sa, n) : sa \in PolicySvcAccts, n \in 1..MaxCalls}

\* What SetPolicy stores: the policy handed to it replaces the bucket's.
WrittenPolicyMerged(current, modified) ==
  [b \in DOMAIN current \cup DOMAIN modified |->
     IF b \in DOMAIN modified THEN modified[b] ELSE current[b]]
WrittenPolicy(current, modified) == modified

RaceCall(p) == gruns[p].prog[gruns[p].idx]
RaceRunning(p) == gruns[p].idx <= Len(gruns[p].prog) /\ gruns[p].err = Nil
RaceEvent(p, kind, out) ==
  [run |-> p, kind |-> kind, op |-> RaceCall(p).op, sa |-> RaceCall(p).sa, out |-> out]

\* policy, err := bucket.IAM().Policy(c.ctx), and the HasRole test on it.
RaceRead ==
  \E p \in RaceRuns :
    /\ RaceRunning(p) /\ gruns[p].pc = "read"
    /\ \E ok \in BOOLEAN :
         LET c == RaceCall(p)
             held == HasRole(policy, SvcAcctMember(c.sa), RaceRole)
             nothing == IF c.op = "add" THEN held ELSE ~held IN
         IF ~ok
           THEN /\ gruns' = [gruns EXCEPT ![p].err = ErrGetPolicy]
                /\ gevents' = Append(gevents, RaceEvent(p, "read", "getfail"))
           ELSE IF nothing
             THEN /\ gruns' = [gruns EXCEPT ![p].idx = @ + 1]
                  /\ gevents' = Append(gevents, RaceEvent(p, "read", "noop"))
             ELSE /\ gruns' = [gruns EXCEPT ![p].pc = "write",
                                           ![p].read = [policy |-> policy, version |-> gversion]]
                  /\ gevents' = Append(gevents, RaceEvent(p, "read", "ok"))
    /\ UNCHANGED <<policy, gversion>>
    /\ UNCHANGED <<revokeLog, waitVars, backupVars, restoreVars, pcalls, dbReported,
                   dbListed, locVars, enumVars, secretVars>>

\* policy.Add or policy.Remove on the policy read, then
\* bucket.IAM().SetPolicy(c.ctx, policy). When the bucket's policy was
\* written since it was read, the service either rejects the write for its
\* etag or stores it.
RaceWrite ==
  \E p \in RaceRuns :
    /\ RaceRunning(p) /\ gruns[p].pc = "write"
    /\ LET c == RaceCall(p)
           read == gruns[p].read
           modified == IF c.op = "add"
                         THEN PolicyAdd(read.policy, SvcAcctMember(c.sa), RaceRole)
                         ELSE PolicyRemove(read.policy, SvcAcctMember(c.sa), RaceRole)
           outs == {"ok", "setfail"} \cup (IF read.version # gversion THEN {"conflict"} ELSE {})
       IN \E out \in outs :
            /\ gevents' = Append(gevents, RaceEvent(p, "write", out))
            /\ IF out = "ok"
                 THEN /\ policy' = WrittenPolicy(policy, modified)
                      /\ gversion' = gversion + 1
                      /\ gruns' = [gruns EXCEPT ![p].idx = @ + 1, ![p].pc = "read"]
                 ELSE /\ gruns' = [gruns EXCEPT ![p].err = ErrSetPolicy]
                      /\ UNCHANGED <<policy, gversion>>
    /\ UNCHANGED <<revokeLog, waitVars, backupVars, restoreVars, pcalls, dbReported,
                   dbListed, locVars, enumVars, secretVars>>

\* ------------------------------------------- backup locations (pkg/storage)

\* A Go string is a sequence of tokens: the separators "/", "-", "." and ":"
\* are tokens of their own, every other token is a run of characters that
\* holds none of them.

\* Index of the first / last token of s equal to sep (0: none).
FirstIndex(s, sep) ==
  IF \E i \in DOMAIN s : s[i] = sep
  THEN CHOOSE i \in DOMAIN s : s[i] = sep /\ \A j \in 1..(i - 1) : s[j] # sep
  ELSE 0
LastIndex(s, sep) ==
  IF \E i \in DOMAIN s : s[i] = sep
  THEN CHOOSE i \in DOMAIN s : s[i] = sep /\ \A j \in (i + 1)..Len(s) : s[j] # sep
  ELSE 0

\* strings.Split(s, sep): the pieces between the separators, empty pieces
\* included.
RECURSIVE Split(_, _)
Split(s, sep) ==
  LET i == FirstIndex(s, sep) IN
  IF i = 0 THEN <<s>>
  ELSE <<SubSeq(s, 1, i - 1)>> \o Split(SubSeq(s, i + 1, Len(s)), sep)

\* strings.Join(ss, sep)
RECURSIVE Join(_, _)
Join(ss, sep) ==
  IF ss = <<>> THEN <<>>
  ELSE IF Len(ss) = 1 THEN ss[1]
  ELSE ss[1] \o <<sep>> \o Join(Tail(ss), sep)

\* filepath.Clean: empty and "." elements are dropped, ".." takes back the
\* element before it, a rooted path stays rooted, an empty result is ".".
RECURSIVE CleanElements(_, _, _)
CleanElements(kept, elems, rooted) ==
  IF elems = <<>> THEN kept
  ELSE LET e == Head(elems) IN
       CleanElements(
         IF e = <<>> \/ e = <<".">> THEN kept
         ELSE IF e = <<".", ".">>
           THEN IF kept # <<>> /\ kept[Len(kept)] # <<".", ".">>
                  THEN SubSeq(kept, 1, Len(kept) - 1)
                ELSE IF rooted THEN kept
                ELSE Append(kept, e)
         ELSE Append(kept, e),
         Tail(elems), rooted)

Clean(path) ==
  LET rooted == path # <<>> /\ path[1] = "/"
      body == Join(CleanElements(<<>>, Split(path, "/"), rooted), "/")
  IN IF rooted THEN <<"/">> \o body
     ELSE IF body = <<>> THEN <<".">>
     ELSE body

\* filepath.Dir: Clean of everything up to the last separator.
DirUncleaned(path) == SubSeq(path, 1, LastIndex(path, "/") - 1)
Dir(path) == Clean(SubSeq(path, 1, LastIndex(path, "/")))

\* filepath.Base: the last element, trailing separators stripped.
RECURSIVE Base(_)
Base(path) ==
  IF path = <<>> THEN <<".">>
  ELSE IF path[Len(path)] = "/"
    THEN IF Len(path) = 1 THEN <<"/">> ELSE Base(SubSeq(path, 1, Len(path) - 1))
  ELSE SubSeq(path, LastIndex(path, "/") + 1, Len(path))

\* func databaseFromFile(file string) string
databaseFromFileFirstToken(file) == Split(Base(file), "-")[1]
databaseFromFile(file) ==
  LET ss == Split(Base(file), "-") IN Join(SubSeq(ss, 1, Len(ss) - 1), "-")

\* fmt.Sprintf("%susers-%s.txt", b.Path, b.Time)
UserLocationByInstance(b) ==
  b.Instance \o <<"/", "cloudsql", "/", "users", "-">> \o b.Time \o <<".", "txt">>
UserLocation(b) == b.Path \o <<"users", "-">> \o b.Time \o <<".", "txt">>

\* fmt.Sprintf("%sstats-%s-%s.yaml", b.Path, database, b.Time)
StatsLocation(b, database) ==
  b.Path \o <<"stats", "-">> \o database \o <<"-">> \o b.Time \o <<".", "yaml">>

\* suffix := "sql"; if b.Compression { suffix = "sql.gz" }
SuffixAlwaysSql(compression) == <<"sql">>
Suffix(compression) == IF compression THEN <<"sql", ".", "gz">> ELSE <<"sql">>

\* fmt.Sprintf("gs://%s/%s/cloudsql/%s-%s.%s", b.Bucket, b.Instance,
\*             database, b.Time, suffix)
DatabaseLocation(b, database) ==
  <<"gs", ":", "/", "/">> \o b.Bucket \o <<"/">> \o b.Instance
    \o <<"/", "cloudsql", "/">> \o database \o <<"-">> \o b.Time
    \o <<".">> \o Suffix(b.Compression)

\* NewLocation(file). An index past the end of a slice panics.
Panicked == [returned |-> TRUE, panic |-> TRUE]
NewLocation(file) ==
  LET parts == Split(file, "/")
      ss == Split(Dir(file), "/")
      hs == Split(Base(file), "-")
  IN IF Len(parts) < 3 \/ Len(ss) < 3 THEN Panicked
     ELSE [returned |-> TRUE, panic |-> FALSE,
           Bucket |-> parts[3],
           Path |-> Join(SubSeq(ss, 3, Len(ss)), "/") \o <<"/">>,
           Instance |-> ss[3],
           Database |-> databaseFromFile(file),
           Time |-> Split(hs[Len(hs)], ".")[1],
           Compression |-> FALSE]

\* Values the parts of a location take.
Buckets == {<<"b">>, <<"flink", "-", "backup">>}
LocInstances == {<<"pricing">>, <<"payment", "-", "service">>}
Times == {<<"20240404T152957">>, <<"20240417T150207">>}
NameAtoms == {"pay", "events"}
\* Database names: one or more tokens joined by hyphens, and a dotted name.
LocDatabases ==
  {Join(ts, "-") : ts \in BoundedSeq({<<a>> : a \in NameAtoms}, MaxNameTokens) \ {<<>>}}
    \cup {<<"v1", ".", "2">>}
Paths == {i \o <<"/", "cloudsql", "/">> : i \in LocInstances}
Locations ==
  [Bucket : Buckets, Database : {NoString, <<"pricing">>}, Instance : LocInstances,
   Path : Paths, Time : Times, Compression : BOOLEAN]

\* File paths handed to NewLocation: scheme://bucket/instance/.../database-time.ext
Shapes ==
  [given : {TRUE}, scheme : {"gs", "s3"}, bucket : Buckets, instance : LocInstances,
   dirs : {<<>>, <<<<"cloudsql">>>>, <<<<"cloudsql">>, <<"daily", "-", "1">>>>},
   database : {<<"pricing">>, <<"payment", "-", "events">>},
   time : Times,
   ext : {<<"sql">>, <<"sql", ".", "gz">>, <<"bak">>}]
ShapeBase(sh) == sh.database \o <<"-">> \o sh.time \o <<".">> \o sh.ext
ShapeFile(sh) ==
  <<sh.scheme, ":", "/", "/">> \o sh.bucket \o <<"/">>
    \o Join(<<sh.instance>> \o sh.dirs \o <<ShapeBase(sh)>>, "/")

LocDatabaseLocation ==
  /\ lshape = NoShape /\ lfile = NoString
  /\ lfile' = DatabaseLocation(lloc, ldatabase)
  /\ UNCHANGED <<lloc, ldatabase, lshape, lparsed, luser, lstats>>
  /\ UNCHANGED <<pcalls, dbReported, dbListed, raceVars, enumVars, secretVars,
                 waitVars, callerVars>>

LocNewLocation ==
  /\ lfile # NoString /\ lparsed = NotReturned
  /\ lparsed' = NewLocation(lfile)
  /\ UNCHANGED <<lloc, ldatabase, lshape, lfile, luser, lstats>>
  /\ UNCHANGED <<pcalls, dbReported, dbListed, raceVars, enumVars, secretVars,
                 waitVars, callerVars>>

LocUserLocation ==
  /\ lshape = NoShape /\ luser = NoString
  /\ luser' = UserLocation(lloc)
  /\ UNCHANGED <<lloc, ldatabase, lshape, lfile, lparsed, lstats>>
  /\ UNCHANGED <<pcalls, dbReported, dbListed, raceVars, enumVars, secretVars,
                 waitVars, callerVars>>

LocStatsLocation ==
  /\ lshape = NoShape /\ lstats = NoString
  /\ lstats' = StatsLocation(lloc, ldatabase)
  /\ UNCHANGED <<lloc, ldatabase, lshape, lfile, lparsed, luser>>
  /\ UNCHANGED <<pcalls, dbReported, dbListed, raceVars, enumVars, secretVars,
                 waitVars, callerVars>>

\* ------------------------------------------------ the database enumerator

ErrListDatabases == <<"googleapi: Error 403", "databases.list">>

\* if database.Name == "mysql" || database.Name == "postgres" { continue }
SkipDatabaseMysqlOnly(name) == name = "mysql"
SkipDatabase(name) == name = "mysql" \/ name = "postgres"

\* The loop over list.Items: every name that is not skipped is appended.
RECURSIVE AppendDatabases(_, _)
AppendDatabases(databases, items) ==
  IF items = <<>> THEN databases
  ELSE AppendDatabases(IF SkipDatabase(Head(items)) THEN databases
                       ELSE Append(databases, Head(items)),
                       Tail(items))

\* Names the remote API may report, system databases and near misses included.
ReportedNames == {"a", "b", "mysql", "postgres", "postgres2"}
ReportedLists == BoundedSeq(ReportedNames, MaxReported)

ListDatabasesForCloudSQLInstance ==
  /\ dbListed = NotReturned
  /\ \E ok \in BOOLEAN :
       dbListed' = IF ok
         THEN [returned |-> TRUE, databases |-> AppendDatabases(<<>>, dbReported), err |-> Nil]
         ELSE [returned |-> TRUE, databases |-> <<>>, err |-> ErrListDatabases]
  /\ UNCHANGED <<dbReported, pcalls, locVars, raceVars, enumVars, secretVars,
                 waitVars, callerVars>>

\* ------------------------------------------------------------------ Backup

InstanceNames == {"i1", "i2"}
DatabaseNames == <<"a", "b", "c">>
\* The databases of an instance other than the engine's own.
DbLists == {SubSeq(DatabaseNames, 1, k) : k \in 0..Min(MaxDbs, Len(DatabaseNames))}

\* instance.ServiceAccountEmailAddress
SvcAcctOf(i) == <<"sa-of", i>>

BackupOptionSets ==
  [EnsureIamBindings : BOOLEAN, EnsureIamBindingsTemp : BOOLEAN, ExportStats : BOOLEAN,
   Compression : BOOLEAN]

\* opts.Bucket
BackupBucket == <<"b">>

\* The flags of the backup command, and execute's options for Backup.
BackupFlagSets ==
  [stats : BOOLEAN, compression : BOOLEAN, ensureIamBindings : BOOLEAN,
   ensureIamBindingsTemp : BOOLEAN]
execute(flags) ==
  [EnsureIamBindings |-> flags.ensureIamBindings,
   EnsureIamBindingsTemp |-> flags.ensureIamBindingsTemp,
   ExportStats |-> TRUE,
   Compression |-> flags.compression]
DirectCall == [viaCommand |-> FALSE]

\* What Databases.List reports for an instance: its databases and the
\* engine's own.
Reported(dbs) == <<"postgres">> \o dbs \o <<"mysql">>
ReportedMaps == UNION {[is -> {Reported(l) : l \in DbLists}] : is \in SUBSET InstanceNames}

\* time.Now().Format("20060102T150405"): the clock does not run backwards.
ClockReadings == <<"20240404T152957", "20240404T152958">>
ReadingsAfter(loc) ==
  IF loc = NoLocation THEN {ClockReadings[1]}
  ELSE {ClockReadings[k] : k \in {j \in DOMAIN ClockReadings :
                                    \E i \in 1..j : <<ClockReadings[i]>> = loc.Time}}

\* backupLocation := bakstorage.Location{...}
BackupLocationFlatPath(instance, now, compression) ==
  [Bucket |-> BackupBucket, Database |-> NoString, Instance |-> <<instance>>,
   Path |-> <<instance, "/">>, Time |-> <<now>>,
   Compression |-> compression]

BackupLocation(instance, now, compression) ==
  [Bucket |-> BackupBucket, Database |-> NoString, Instance |-> <<instance>>,
   Path |-> <<instance, "/", "cloudsql", "/">>, Time |-> <<now>>,
   Compression |-> compression]

\* Bindings the bucket may hold before the run starts.
PreexistingBindings ==
  {<<RoleObjectCreator, SvcAcctMember(SvcAcctOf("i1"))>>,
   <<RoleObjectViewer, SvcAcctMember(SvcAcctOf("i1"))>>}

InitialPolicies ==
  {PolicyOf({UnrelatedBinding} \cup b) : b \in SUBSET PreexistingBindings}

ErrEnumerate == <<"googleapi: Error 403", "instances.list">>
ErrGetInstance == <<"googleapi: Error 403", "instances.get">>
ErrExportUser == <<"googleapi: Error 403", "users.list">>
ErrExportStats == <<"failed to connect">>
ErrExport == <<"googleapi: Error 403", "instances.export">>

NoInstance == "none"
NoSvcAcct == <<>>

BackupIdle ==
  /\ bpc = "idle" /\ bopts = [EnsureIamBindings |-> FALSE,
                               EnsureIamBindingsTemp |-> FALSE,
                               ExportStats |-> FALSE,
                               Compression |-> FALSE]
  /\ bcmd = DirectCall /\ breported = <<>>
  /\ bloc = NoLocation /\ bwritten = {} /\ bconnected = FALSE
  /\ binstances = <<>> /\ btodo = {} /\ bcur = NoInstance /\ bsa = NoSvcAcct
  /\ bdbIdx = 0 /\ blocs = <<>> /\ bdefers = <<>> /\ bdstep = 0
  /\ backupPaths = <<>> /\ rerr = Nil /\ bfirst = Nil /\ bobtained = {}

\* The deferred functions that run when Backup returns with error e: all
\* that were registered, last registered first.
DefersOnSuccessOnly(registered, e) == IF e = Nil THEN registered ELSE <<>>

DefersOnExit(registered, e) == registered

\* return paths, e: the named results are set, then the deferred functions run.
BackupContinue(paths, e) ==
  /\ rerr' = e
  /\ bfirst' = e
  /\ IF e = Nil
       THEN backupPaths' = paths /\ bdefers' = bdefers /\ bdstep' = 1 /\ bpc' = "defers"
       ELSE backupPaths' = backupPaths /\ bdefers' = bdefers /\ bdstep' = bdstep /\ bpc' = "loop"
BackupReturn(paths, e) ==
  /\ backupPaths' = paths
  /\ rerr' = e
  /\ bfirst' = e
  /\ bdefers' = DefersOnExit(bdefers, e)
  /\ bdstep' = 1
  /\ bpc' = "defers"

\* cls.EnumerateCloudSQLDatabaseInstances(opts.Instance)
BackupEnumerate ==
  /\ bpc = "start"
  /\ \E ok \in BOOLEAN :
       IF ok
         THEN \E rep \in ReportedMaps :
                /\ breported' = rep
                /\ binstances' = [i \in DOMAIN rep |-> AppendDatabases(<<>>, rep[i])]
                /\ btodo' = DOMAIN rep
                /\ bpc' = "loop"
                /\ UNCHANGED <<backupPaths, rerr, bfirst, bdefers, bdstep>>
         ELSE /\ BackupReturn(<<>>, ErrEnumerate)
              /\ UNCHANGED <<binstances, btodo, breported>>
  /\ UNCHANGED <<bopts, bcmd, bcur, bsa, bdbIdx, blocs, bobtained>>
  /\ UNCHANGED <<waitVars, policyVars>>
  /\ UNCHANGED <<restoreVars, unitVars, bartifacts>>

\* for instance, databases := range instances: a map is ranged in any order.
BackupNextInstance ==
  /\ bpc = "loop"
  /\ IF btodo = {}
       THEN /\ BackupReturn(backupPaths, Nil)
            /\ UNCHANGED <<btodo, bcur>>
       ELSE \E i \in btodo :
              /\ bcur' = i
              /\ btodo' = btodo \ {i}
              /\ bpc' = IF bopts.EnsureIamBindings \/ bopts.EnsureIamBindingsTemp
                          THEN "svcacct" ELSE "exportUser"
              /\ UNCHANGED <<backupPaths, rerr, bfirst, bdefers, bdstep>>
  /\ bsa' = NoSvcAcct /\ bdbIdx' = 0 /\ blocs' = <<>>
  /\ UNCHANGED <<bopts, bcmd, breported, binstances, bobtained>>
  /\ UNCHANGED <<waitVars, policyVars>>
  /\ UNCHANGED <<restoreVars, unitVars, bartifacts>>

\* cls.GetSvcAcctForCloudSQLInstance, then the defer of the two revocations.
BackupGetSvcAcct ==
  /\ bpc = "svcacct"
  /\ \E ok \in BOOLEAN :
       IF ok
         THEN /\ bsa' = SvcAcctOf(bcur)
              /\ bdefers' = IF bopts.EnsureIamBindingsTemp
                              THEN Append(bdefers, SvcAcctOf(bcur)) ELSE bdefers
              /\ bobtained' = IF bopts.EnsureIamBindingsTemp
                                THEN bobtained \cup {SvcAcctOf(bcur)} ELSE bobtained
              /\ bpc' = "addCreator"
              /\ UNCHANGED <<backupPaths, rerr, bfirst, bdstep>>
         ELSE /\ BackupReturn(<<>>, ErrGetInstance)
              /\ UNCHANGED <<bsa, bobtained>>
  /\ UNCHANGED <<bopts, bcmd, breported, binstances, btodo, bcur, bdbIdx, blocs>>
  /\ UNCHANGED <<waitVars, policyVars>>
  /\ UNCHANGED <<restoreVars, unitVars, bartifacts>>

BackupAddRole(at, role, next) ==
  /\ bpc = at
  /\ \E io \in GrantIO :
       LET r == AddRoleBindingToGCSBucket(policy, role, bsa, io) IN
       /\ policy' = r.policy
       /\ IF r.err # Nil
            THEN BackupReturn(<<>>, r.err)
            ELSE /\ bpc' = next
                 /\ UNCHANGED <<backupPaths, rerr, bfirst, bdefers, bdstep>>
  /\ UNCHANGED <<bopts, bcmd, breported, binstances, btodo, bcur, bsa, bdbIdx, blocs, bobtained>>
  /\ UNCHANGED <<waitVars, revokeLog>>
  /\ UNCHANGED <<restoreVars, unitVars, bartifacts>>

BackupAddCreator == BackupAddRole("addCreator", RoleObjectCreator, "addViewer")

BackupAddViewer == BackupAddRole("addViewer", RoleObjectViewer, "exportUser")

\* backupLocation is built, then cls.ExportCloudSQLUser(backupLocation)
\* writes the user list (an error may leave the artifact written or not).
BackupExportUser ==
  /\ bpc = "exportUser"
  /\ \E now \in ReadingsAfter(bloc), ok \in BOOLEAN, wrote \in BOOLEAN :
       LET loc == BackupLocation(bcur, now, bopts.Compression)
           file == [instance |-> bcur, kind |-> "users", path |-> UserLocation(loc)] IN
       /\ bloc' = loc
       /\ IF ok
            THEN /\ wrote
                 /\ bwritten' = bwritten \cup {file}
                 /\ bpc' = "exportStats"
                 /\ UNCHANGED <<backupPaths, rerr, bfirst, bdefers, bdstep>>
            ELSE /\ bwritten' = IF wrote THEN bwritten \cup {file} ELSE bwritten
                 /\ BackupReturn(<<>>, ErrExportUser)
  /\ UNCHANGED bconnected
  /\ UNCHANGED <<bopts, bcmd, breported, binstances, btodo, bcur, bsa, bdbIdx, blocs, bobtained>>
  /\ UNCHANGED <<waitVars, policyVars>>
  /\ UNCHANGED <<restoreVars, unitVars>>

\* The statistics artifacts of the first n databases of the instance.
StatsFiles(loc, instance, dbs, n) ==
  {[instance |-> instance, kind |-> "stats", path |-> StatsLocation(loc, <<dbs[k]>>)] :
     k \in 1..n}

\* if opts.ExportStats { cls.ExportCloudSQLStatistics(...) }: for each
\* database, connect, query, write the artifact; the first error ends it.
StatsNeverRequested(opts) == FALSE

\* if opts.ExportStats { ... }
StatsRequested(opts) == opts.ExportStats

BackupExportStats ==
  /\ bpc = "exportStats"
  /\ LET dbs == binstances[bcur] IN
     IF ~StatsRequested(bopts)
       THEN /\ bpc' = "exportDb"
            /\ bdbIdx' = 1
            /\ UNCHANGED <<backupPaths, rerr, bfirst, bdefers, bdstep, bwritten, bconnected>>
       ELSE \E failAt \in 0..Len(dbs) :
              /\ bconnected' = (bconnected \/ dbs # <<>>)
              /\ IF failAt = 0
                   THEN /\ bwritten' = bwritten \cup StatsFiles(bloc, bcur, dbs, Len(dbs))
                        /\ bpc' = "exportDb"
                        /\ bdbIdx' = 1
                        /\ UNCHANGED <<backupPaths, rerr, bfirst, bdefers, bdstep>>
                   ELSE /\ bwritten' = bwritten \cup StatsFiles(bloc, bcur, dbs, failAt - 1)
                        /\ BackupReturn(<<>>, ErrExportStats)
                        /\ UNCHANGED bdbIdx
  /\ UNCHANGED bloc
  /\ UNCHANGED <<bopts, bcmd, breported, binstances, btodo, bcur, bsa, blocs, bobtained>>
  /\ UNCHANGED <<waitVars, policyVars>>
  /\ UNCHANGED <<restoreVars, unitVars>>

\* backupPaths = append(backupPaths, locations...)
ReplacePaths(paths, locations) == locations
AppendPaths(paths, locations) == paths \o locations

\* ExportCloudSQLDatabase: for each database, trigger the export and wait;
\* after the last one, backupPaths = append(backupPaths, locations...).
BackupExportDb ==
  /\ bpc = "exportDb"
  /\ IF bdbIdx > Len(binstances[bcur])
       THEN /\ backupPaths' = AppendPaths(backupPaths, blocs)
            /\ bpc' = "loop"
            /\ UNCHANGED <<rerr, bfirst, bdefers, bdstep, blocs, waitVars>>
       ELSE \E ok \in BOOLEAN :
              IF ok
                THEN /\ blocs' = Append(blocs, DatabaseLocation(bloc, <<binstances[bcur][bdbIdx]>>))
                     /\ wpc' = "call"
                     /\ wop' \in OpNames
                     /\ bpc' = "exportWait"
                     /\ UNCHANGED <<backupPaths, rerr, bfirst, bdefers, bdstep>>
                     /\ UNCHANGED <<ctxDone, wlast, wres, nFetch, nSleep,
                                    cancelledIn, wokeAfterCancel, fetchAfterCancel>>
                ELSE /\ BackupReturn(<<>>, ErrExport)
                     /\ UNCHANGED <<blocs, waitVars>>
  /\ UNCHANGED <<bopts, bcmd, breported, binstances, btodo, bcur, bsa, bdbIdx, bobtained>>
  /\ UNCHANGED policyVars
  /\ UNCHANGED <<restoreVars, unitVars, bartifacts>>

\* The call of WaitForSQLOperation blocks its caller until it returns.
WaitAbandoned == wpc \in {"ret", "sleep"}
WaitHasReturned == wpc = "ret"

\* The wait gives its result back to its caller.
WaitReset ==
  /\ wpc' = "idle" /\ wop' = NilOp /\ wlast' = NoFetch /\ wres' = Nil
  /\ nFetch' = 0 /\ nSleep' = 0
  /\ UNCHANGED <<ctxDone, cancelledIn, wokeAfterCancel, fetchAfterCancel>>

\* err = c.WaitForSQLOperation(time.Minute*1, op) inside ExportCloudSQLDatabase
BackupExportWaited ==
  /\ bpc = "exportWait"
  /\ WaitHasReturned
  /\ IF wres # Nil
       THEN /\ BackupReturn(<<>>, wres)
            /\ UNCHANGED bdbIdx
       ELSE /\ bdbIdx' = bdbIdx + 1
            /\ bpc' = "exportDb"
            /\ UNCHANGED <<backupPaths, rerr, bfirst, bdefers, bdstep>>
  /\ WaitReset
  /\ UNCHANGED <<bopts, bcmd, breported, binstances, btodo, bcur, bsa, blocs, bobtained>>
  /\ UNCHANGED policyVars
  /\ UNCHANGED <<restoreVars, unitVars, bartifacts>>

\* One statement of the deferred function on top of the stack:
\*   err = cls.RemoveRoleBindingToGCSBucket(...); if err != nil { rerr = err }
BackupDeferRemove(step, role) ==
  /\ bpc = "defers"
  /\ bdefers # <<>>
  /\ bdstep = step
  /\ \E io \in GrantIO :
       LET sa == bdefers[Len(bdefers)]
           r == RemoveRoleBindingToGCSBucket(policy, role, sa, io) IN
       /\ policy' = r.policy
       /\ revokeLog' = revokeLog \cup {<<role, sa, r.err>>}
       /\ rerr' = IF r.err # Nil THEN r.err ELSE rerr
       /\ bfirst' = IF bfirst = Nil THEN r.err ELSE bfirst
  /\ IF step = 1
       THEN bdstep' = 2 /\ bdefers' = bdefers
       ELSE bdstep' = 1 /\ bdefers' = SubSeq(bdefers, 1, Len(bdefers) - 1)
  /\ UNCHANGED <<bpc, bopts, bcmd, breported, binstances, btodo, bcur, bsa, bdbIdx, blocs,
                 backupPaths, bobtained>>
  /\ UNCHANGED waitVars
  /\ UNCHANGED <<restoreVars, unitVars, bartifacts>>

BackupDeferRemoveCreator == BackupDeferRemove(1, RoleObjectCreator)

BackupDeferRemoveViewer == BackupDeferRemove(2, RoleObjectViewer)

\* Every deferred function has run: Backup has returned.
BackupExit ==
  /\ bpc = "defers"
  /\ bdefers = <<>>
  /\ bpc' = "done"
  /\ UNCHANGED <<bopts, bcmd, breported, binstances, btodo, bcur, bsa, bdbIdx, blocs,
                 bdefers, bdstep, backupPaths, rerr, bfirst, bobtained>>
  /\ UNCHANGED <<waitVars, policyVars>>
  /\ UNCHANGED <<restoreVars, unitVars, bartifacts>>

\* ----------------------------------------------------------------- Restore

SourceInstance == "i1"
\* Name: fmt.Sprintf("restore-%s", opts.Instance)
RestoreTarget == <<"restore-", SourceInstance>>
RestoreSvcAcct == <<"sa-of", "restore-i1">>

\* strings.ToUpper on the names in use.
ToUpperIdentity(str) == str
ToUpperToken(t) ==
  CASE t = "restore-" -> "RESTORE-" [] t = "i1" -> "I1" [] t = "i2" -> "I2" [] OTHER -> t
ToUpper(str) == [k \in DOMAIN str |-> ToUpperToken(str[k])]

\* fmt.Sprintf("projects/%s/secrets/%s", c.ProjectID, strings.ToUpper(dbInstance))
SecretName(dbInstance) == <<"projects/", "p", "/secrets/">> \o ToUpper(dbInstance)
\* fmt.Sprintf("projects/%s/secrets/%s/versions/latest", ...)
SecretVersionName(dbInstance) == SecretName(dbInstance) \o <<"/versions/latest">>

\* opts.File: a location a backup of the source instance returned, and a
\* path without the instance and cloudsql segments.
RestoreFiles ==
  {DatabaseLocation(BackupLocation(SourceInstance, ClockReadings[1], FALSE), <<"a">>),
   <<"gs", ":", "/", "/", "b", "/", "a", "-", ClockReadings[1], ".", "sql">>}

\* opts.Bucket is an option of its own, next to the bucket opts.File names.
RestoreBuckets == {BackupBucket, <<"other">>}

RestoreOptionSets ==
  [StoreSecret : BOOLEAN, File : RestoreFiles, Bucket : RestoreBuckets]

\* The bucket of the role bindings: AddRoleBindingToGCSBucket(opts.Bucket, ...)
GrantBucket(opts) == opts.Bucket

\* The bucket the artifacts are read from (backLocation.Bucket) and the
\* import is triggered on (the Uri is opts.File).
SourceBucket(opts) == NewLocation(opts.File).Bucket

\* One call Restore made: which, with what argument, and how it came back.
Step(call, arg, out) == [call |-> call, arg |-> arg, out |-> out]
Traced(call, arg, out) == rtrace' = Append(rtrace, Step(call, arg, out))

\* The calls made at these positions are not kept in the trace.
UntracedCalls == {"insertDatabase", "dbWait", "insertUser", "userWait"}
TracedAt(at, arg, out) ==
  IF at \in UntracedCalls THEN UNCHANGED rtrace ELSE Traced(at, arg, out)

\* The argument of the call made at a position of Restore.
CallArg(at) ==
  CASE at = "savePassword" -> SecretName(RestoreTarget)
    [] at = "accessSecret" -> SecretVersionName(RestoreTarget)
    [] at = "insertUser" -> rusers[rui]
    [] at = "insertDatabase" -> NewLocation(ropts.File).Database
    [] at = "import" -> ropts.File
    [] at \in {"attrs", "openStats"} ->
         StatsLocation(NewLocation(ropts.File), NewLocation(ropts.File).Database)
    [] OTHER -> RestoreTarget

RestoreInitialPolicies ==
  {PolicyOf({UnrelatedBinding} \cup b) :
     b \in SUBSET {<<RoleLegacyBucketReader, SvcAcctMember(RestoreSvcAcct)>>,
                   <<RoleObjectViewer, SvcAcctMember(RestoreSvcAcct)>>}}

\* The user-list artifact as ExportCloudSQLUser writes it: each name
\* followed by a newline.
RECURSIVE UserFile(_)
UserFile(names) ==
  IF Len(names) = 0 THEN <<>>
  ELSE <<names[1], "\n">> \o UserFile(Tail(names))

\* strings.Split(data, "\n"): the pieces between the newlines, the piece
\* after the last newline included. A piece is a sequence of tokens; the
\* empty string is the empty sequence.
RECURSIVE SplitNewline(_)
SplitNewline(data) ==
  IF \A i \in DOMAIN data : data[i] # "\n" THEN <<data>>
  ELSE LET i == CHOOSE k \in DOMAIN data :
                  data[k] = "\n" /\ \A j \in 1..(k - 1) : data[j] # "\n"
       IN <<SubSeq(data, 1, i - 1)>> \o SplitNewline(SubSeq(data, i + 1, Len(data)))

UserNames == <<"u1", "u2", "u3">>
UserNameLists == {SubSeq(UserNames, 1, k) : k \in 0..Min(MaxUsers, Len(UserNames))}

TableNames == <<"public.orders", "public.users", "public.items">>
Tables == {TableNames[k] : k \in 1..Min(MaxTables, Len(TableNames))}
RowCounts == {99, 100}
\* map[string]*CloudSQLStatistic, by its RowCount
StatMaps == UNION {[ts -> RowCounts] : ts \in SUBSET Tables}
NoStats == <<>>

\* fmt's %d of the row counts in use.
FormatInt(n) == CASE n = 99 -> "99" [] n = 100 -> "100" [] OTHER -> "<int>"

\* fmt.Errorf("row count mismatch key: %s, value: %d, backup: %d", ...)
ErrMismatchSwapped(key, value, backup) ==
  <<"row count mismatch key: ", key, ", value: ", FormatInt(backup),
    ", backup: ", FormatInt(value)>>

ErrMismatch(key, value, backup) ==
  <<"row count mismatch key: ", key, ", value: ", FormatInt(value),
    ", backup: ", FormatInt(backup)>>

\* errors.Join(errs...): the texts separated by newlines.
RECURSIVE JoinErrors(_)
JoinErrors(errs) ==
  IF Len(errs) = 0 THEN <<>>
  ELSE IF Len(errs) = 1 THEN errs[1]
  ELSE errs[1] \o <<"\n">> \o JoinErrors(Tail(errs))

ErrStatsNotFound == <<"stats not found">>
ErrInsertInstance == <<"googleapi: Error 403", "instances.insert">>
ErrSavePassword == <<"secretmanager: error", "savePassword">>
ErrAccessSecret == <<"secretmanager: error", "accessSecretVersion">>
ErrInsertDatabase == <<"googleapi: Error 403", "databases.insert">>
ErrOpenUsers == <<"storage: error", "users.NewReader">>
ErrReadUsers == <<"failed to read file contents: ", "storage: error">>
ErrGetUser == <<"googleapi: Error 403", "users.get">>
ErrInsertUser == <<"googleapi: Error 403", "users.insert">>
ErrImport == <<"googleapi: Error 403", "instances.import">>
ErrAttrs == <<"storage: error", "stats.Attrs">>
\* storage.ErrObjectNotExist
ErrObjectNotExist == <<"storage: object doesn't exist">>
ErrOpenStats == <<"storage: error", "stats.NewReader">>
ErrDecode == <<"yaml: error">>

NoResult == [val |-> <<>>, err |-> Nil]

RestoreIdle ==
  /\ rpc = "idle" /\ ropts = [StoreSecret |-> FALSE, File |-> NoString, Bucket |-> NoString]
  /\ rtrace = <<>> /\ rpassword = "generated"
  /\ rusers = <<>> /\ rui = 0 /\ rsa = NoSvcAcct
  /\ rdeferred = FALSE /\ rdstep = 0
  /\ rstats = NoStats /\ rstatsBackup = NoStats /\ rtoVisit = {} /\ rvalErrs = <<>>
  /\ rcompared = FALSE /\ rret = NoResult /\ grantLog = {} /\ viewerHeld = FALSE

\* return val, e: the result is fixed, then the deferred cleanup runs.
RestoreReturn(val, e) ==
  /\ rret' = [val |-> val, err |-> e]
  /\ rpc' = IF rdeferred THEN "defers" ELSE "done"
  /\ rdstep' = 1

RestoreGoto(next) ==
  /\ rpc' = next
  /\ UNCHANGED <<rret, rdstep>>

\* The trigger call returned an operation: c.WaitForSQLOperation(..., operation)
RestoreCallWait(next) ==
  /\ wpc' = "call"
  /\ wop' \in OpNames
  /\ UNCHANGED <<ctxDone, wlast, wres, nFetch, nSleep,
                 cancelledIn, wokeAfterCancel, fetchAfterCancel>>
  /\ RestoreGoto(next)

\* db, err := c.sqlAdminSvc.Instances.Get(c.ProjectID, dbinstance.Name).Do()
RestoreGetInstance ==
  /\ rpc = "start"
  /\ \E out \in {"found", "notfound", "error"} :
       /\ Traced("getInstance", RestoreTarget, out)
       /\ CASE out = "found" -> RestoreGoto("accessSecret")
            [] out = "notfound" ->
                 RestoreGoto(IF ropts.StoreSecret THEN "savePassword" ELSE "insertInstance")
            [] out = "error" -> RestoreReturn(<<>>, ErrGetInstance)
  /\ UNCHANGED <<ropts, rpassword, rusers, rui, rsa, rdeferred, rstats, rstatsBackup,
                 rtoVisit, rvalErrs, rcompared, grantLog, viewerHeld>>
  /\ UNCHANGED <<waitVars, policyVars, backupVars, unitVars>>

\* One remote call that either fails, which ends Restore, or leads on.
RestoreCall(at, next, e) ==
  /\ rpc = at
  /\ \E ok \in BOOLEAN :
       /\ Traced(at, CallArg(at), IF ok THEN "ok" ELSE "error")
       /\ IF ok THEN RestoreGoto(next) ELSE RestoreReturn(<<>>, e)
  /\ UNCHANGED <<ropts, rusers, rui, rsa, rdeferred, rstats, rstatsBackup,
                 rtoVisit, rvalErrs, rcompared, grantLog, viewerHeld>>
  /\ UNCHANGED <<waitVars, policyVars, backupVars, unitVars>>

\* One trigger call: it fails, or returns the operation that is then awaited.
RestoreTrigger(at, next, e) ==
  /\ rpc = at
  /\ \E ok \in BOOLEAN :
       /\ TracedAt(at, CallArg(at), IF ok THEN "ok" ELSE "error")
       /\ IF ok THEN RestoreCallWait(next)
                ELSE RestoreReturn(<<>>, e) /\ UNCHANGED waitVars
  /\ UNCHANGED <<ropts, rpassword, rusers, rui, rsa, rdeferred, rstats, rstatsBackup,
                 rtoVisit, rvalErrs, rcompared, grantLog, viewerHeld>>
  /\ UNCHANGED <<policyVars, backupVars, unitVars>>

\* if err := c.WaitForSQLOperation(...); err != nil { return nil, err }
RestoreWaited(at, next) ==
  /\ rpc = at
  /\ WaitHasReturned
  /\ IF wres # Nil THEN RestoreReturn(<<>>, wres) ELSE RestoreGoto(next)
  /\ TracedAt(at, NoString, IF wres = Nil THEN "ok" ELSE "error")
  /\ WaitReset
  /\ rui' = IF at = "userWait" /\ wres = Nil THEN rui + 1 ELSE rui
  /\ UNCHANGED <<ropts, rpassword, rusers, rsa, rdeferred, rstats, rstatsBackup,
                 rtoVisit, rvalErrs, rcompared, grantLog, viewerHeld>>
  /\ UNCHANGED <<policyVars, backupVars, unitVars>>

\* err := c.savePassword(password, dbinstance.Name)
RestoreSavePassword ==
  /\ RestoreCall("savePassword", "insertInstance", ErrSavePassword)
  /\ UNCHANGED rpassword

RestoreInsertInstance == RestoreTrigger("insertInstance", "instWait", ErrInsertInstance)

RestoreInstanceWaited == RestoreWaited("instWait", "getDatabase")

\* secretVersion, err := c.secretSvc.AccessSecretVersion(...)
RestoreAccessSecret ==
  /\ RestoreCall("accessSecret", "getDatabase", ErrAccessSecret)
  /\ rpassword' = IF rpc' = "getDatabase" THEN "secret" ELSE rpassword

\* backLocation := bakstorage.NewLocation(opts.File), which panics on a path
\* with too few segments; then
\* dbase, err := c.sqlAdminSvc.Databases.Get(...): an error other than 404
\* is logged, and dbase is nil then too.
RestoreGetDatabase ==
  /\ rpc = "getDatabase"
  /\ LET backLocation == NewLocation(ropts.File) IN
     IF backLocation = Panicked
       THEN /\ rpc' = "panic"
            /\ UNCHANGED <<rret, rdstep, rtrace>>
       ELSE \E out \in {"found", "notfound", "error"} :
              /\ Traced("getDatabase", backLocation.Database,
                        IF out = "error" THEN "error" ELSE "returned")
              /\ RestoreGoto(IF out = "found" THEN "readUsers" ELSE "insertDatabase")
  /\ UNCHANGED <<ropts, rpassword, rusers, rui, rsa, rdeferred, rstats, rstatsBackup,
                 rtoVisit, rvalErrs, rcompared, grantLog, viewerHeld>>
  /\ UNCHANGED <<waitVars, policyVars, backupVars, unitVars>>

RestoreInsertDatabase == RestoreTrigger("insertDatabase", "dbWait", ErrInsertDatabase)

RestoreDatabaseWaited == RestoreWaited("dbWait", "readUsers")

\* NewReader, io.ReadAll, users := strings.Split(string(data), "\n")
RestoreReadUsers ==
  /\ rpc = "readUsers"
  /\ \E out \in {"ok", "openfail", "readfail"} :
       /\ Traced("readUsers", UserLocation(NewLocation(ropts.File)), out)
       /\ CASE out = "ok" ->
              \E names \in UserNameLists :
                /\ rusers' = SplitNewline(UserFile(names))
                /\ rui' = 1
                /\ RestoreGoto("getUser")
         [] out = "openfail" ->
              RestoreReturn(<<>>, ErrOpenUsers) /\ UNCHANGED <<rusers, rui>>
         [] out = "readfail" ->
              RestoreReturn(<<>>, ErrReadUsers) /\ UNCHANGED <<rusers, rui>>
  /\ UNCHANGED <<ropts, rpassword, rsa, rdeferred, rstats, rstatsBackup,
                 rtoVisit, rvalErrs, rcompared, grantLog, viewerHeld>>
  /\ UNCHANGED <<waitVars, policyVars, backupVars, unitVars>>

\* for _, user := range users { u, err := c.sqlAdminSvc.Users.Get(...) ... }
RestoreGetUser ==
  /\ rpc = "getUser"
  /\ IF rui > Len(rusers)
       THEN RestoreGoto("svcacct") /\ UNCHANGED <<rui, rtrace>>
       ELSE \E out \in {"found", "notfound", "error"} :
              /\ Traced("getUser", rusers[rui], IF out = "error" THEN "error" ELSE "returned")
              /\ CASE out = "found" -> RestoreGoto("getUser") /\ rui' = rui + 1
                [] out = "notfound" -> RestoreGoto("insertUser") /\ UNCHANGED rui
                [] out = "error" -> RestoreReturn(<<>>, ErrGetUser) /\ UNCHANGED rui
  /\ UNCHANGED <<ropts, rpassword, rusers, rsa, rdeferred, rstats, rstatsBackup,
                 rtoVisit, rvalErrs, rcompared, grantLog, viewerHeld>>
  /\ UNCHANGED <<waitVars, policyVars, backupVars, unitVars>>

RestoreInsertUser == RestoreTrigger("insertUser", "userWait", ErrInsertUser)

RestoreUserWaited == RestoreWaited("userWait", "getUser")

\* sqlAdminSvcAccount, err := c.GetSvcAcctForCloudSQLInstance(...); defer func() {...}()
RestoreGetSvcAcct ==
  /\ rpc = "svcacct"
  /\ \E ok \in BOOLEAN :
       IF ok
         THEN /\ rsa' = RestoreSvcAcct
              /\ rdeferred' = TRUE
              /\ viewerHeld' = HasRole(policy, SvcAcctMember(RestoreSvcAcct), RoleObjectViewer)
              /\ RestoreGoto("addLegacy")
         ELSE /\ RestoreReturn(<<>>, ErrGetInstance)
              /\ UNCHANGED <<rsa, rdeferred, viewerHeld>>
  /\ UNCHANGED rtrace
  /\ UNCHANGED <<ropts, rpassword, rusers, rui, rstats, rstatsBackup,
                 rtoVisit, rvalErrs, rcompared, grantLog>>
  /\ UNCHANGED <<waitVars, policyVars, backupVars, unitVars>>

RestoreAddRole(at, role, next) ==
  /\ rpc = at
  /\ \E io \in GrantIO :
       LET r == AddRoleBindingToGCSBucket(policy, role, rsa, io) IN
       /\ policy' = r.policy
       /\ grantLog' = grantLog \cup {<<role, rsa, r.err>>}
       /\ IF r.err # Nil THEN RestoreReturn(<<>>, r.err) ELSE RestoreGoto(next)
  /\ viewerHeld' = (viewerHeld \/ HasRole(policy', SvcAcctMember(rsa), RoleObjectViewer))
  /\ UNCHANGED <<ropts, rtrace, rpassword, rusers, rui, rsa, rdeferred, rstats, rstatsBackup,
                 rtoVisit, rvalErrs, rcompared>>
  /\ UNCHANGED <<waitVars, revokeLog, backupVars, unitVars>>

RestoreAddLegacyReader == RestoreAddRole("addLegacy", RoleLegacyBucketReader, "addViewer")

RestoreAddViewer == RestoreAddRole("addViewer", RoleObjectViewer, "import")

RestoreImport == RestoreTrigger("import", "importWait", ErrImport)

RestoreImportWaited == RestoreWaited("importWait", "getStats")

\* stats, err := c.GetCloudSQLStatistic(...): err is overwritten by the next
\* statement unread; on failure stats is the nil map.
RestoreGetStats ==
  /\ rpc = "getStats"
  /\ \E ok \in BOOLEAN :
       /\ IF ok THEN rstats' \in StatMaps ELSE rstats' = NoStats
       /\ Traced("getStats", CallArg("getStats"), IF ok THEN "ok" ELSE "error")
  /\ RestoreGoto("attrs")
  /\ UNCHANGED <<ropts, rpassword, rusers, rui, rsa, rdeferred, rstatsBackup,
                 rtoVisit, rvalErrs, rcompared, grantLog, viewerHeld>>
  /\ UNCHANGED <<waitVars, policyVars, backupVars, unitVars>>

\* if err != nil && err != storage.ErrObjectNotExist { return nil, err }
AttrsFailsOnAnyError(err) == err # Nil
AttrsFails(err) == err # Nil /\ err # ErrObjectNotExist

\* if err != storage.ErrObjectNotExist { ...check the integrity... } else { skip }
ChecksIntegrity(err) == err # ErrObjectNotExist

\* _, err = object.Attrs(c.ctx)
RestoreStatAttrs ==
  /\ rpc = "attrs"
  /\ \E err \in {Nil, ErrObjectNotExist, ErrAttrs} :
       /\ Traced("attrs", CallArg("attrs"), err)
       /\ IF AttrsFails(err) THEN RestoreReturn(<<>>, err)
          ELSE IF ChecksIntegrity(err) THEN RestoreGoto("openStats")
          ELSE RestoreReturn(RestoreTarget, Nil)
  /\ UNCHANGED <<ropts, rpassword, rusers, rui, rsa, rdeferred, rstats, rstatsBackup,
                 rtoVisit, rvalErrs, rcompared, grantLog, viewerHeld>>
  /\ UNCHANGED <<waitVars, policyVars, backupVars, unitVars>>

\* reader, err = object.NewReader(c.ctx)
RestoreOpenStats ==
  /\ RestoreCall("openStats", "decode", ErrOpenStats)
  /\ UNCHANGED rpassword

\* err = yaml.NewDecoder(reader).Decode(&statsBackup); var validationErrors []error
RestoreDecodeStats ==
  /\ rpc = "decode"
  /\ \E ok \in BOOLEAN :
       IF ok
         THEN /\ rstatsBackup' \in StatMaps
              /\ rtoVisit' = DOMAIN rstats
              /\ rcompared' = TRUE
              /\ RestoreGoto("validate")
              /\ Traced("decode", CallArg("attrs"), "ok")
         ELSE /\ RestoreReturn(<<>>, ErrDecode)
              /\ Traced("decode", CallArg("attrs"), "error")
              /\ UNCHANGED <<rstatsBackup, rtoVisit, rcompared>>
  /\ UNCHANGED <<ropts, rpassword, rusers, rui, rsa, rdeferred, rstats,
                 rvalErrs, grantLog, viewerHeld>>
  /\ UNCHANGED <<waitVars, policyVars, backupVars, unitVars>>

\* What one visit of the loop leaves in validationErrors:
\*   if value.RowCount != statsBackup[key].RowCount { append(...) }
VisitErrorsKeepLast(errs, key) ==
  IF rstats[key] # rstatsBackup[key]
    THEN <<ErrMismatch(key, rstats[key], rstatsBackup[key])>>
    ELSE errs

VisitErrors(errs, key) ==
  IF rstats[key] # rstatsBackup[key]
    THEN Append(errs, ErrMismatch(key, rstats[key], rstatsBackup[key]))
    ELSE errs

\* for key, value := range stats { ... }: one key per step, in any order;
\* after the last key, the joined mismatches or success.
RestoreValidate ==
  /\ rpc = "validate"
  /\ IF rtoVisit = {}
       THEN /\ IF rvalErrs # <<>>
                 THEN RestoreReturn(<<>>, JoinErrors(rvalErrs))
                 ELSE RestoreReturn(RestoreTarget, Nil)
            /\ UNCHANGED <<rtoVisit, rvalErrs>>
       ELSE \E key \in rtoVisit :
              IF key \notin DOMAIN rstatsBackup
                THEN /\ RestoreReturn(<<>>, ErrStatsNotFound)
                     /\ UNCHANGED <<rtoVisit, rvalErrs>>
                ELSE /\ rvalErrs' = VisitErrors(rvalErrs, key)
                     /\ rtoVisit' = rtoVisit \ {key}
                     /\ RestoreGoto("validate")
  /\ UNCHANGED rtrace
  /\ UNCHANGED <<ropts, rpassword, rusers, rui, rsa, rdeferred, rstats, rstatsBackup,
                 rcompared, grantLog, viewerHeld>>
  /\ UNCHANGED <<waitVars, policyVars, backupVars, unitVars>>

\* The deferred cleanup, first statement:
\*   err = c.RemoveRoleBindingToGCSBucket(opts.Bucket, "roles/storage.legacyBucketReader", ...)
RestoreDeferRemoveLegacy ==
  /\ rpc = "defers"
  /\ rdstep = 1
  /\ \E io \in GrantIO :
       LET r == RemoveRoleBindingToGCSBucket(policy, RoleLegacyBucketReader, rsa, io) IN
       /\ policy' = r.policy
       /\ revokeLog' = revokeLog \cup {<<RoleLegacyBucketReader, rsa, r.err>>}
  /\ rdstep' = 2
  /\ UNCHANGED <<rpc, ropts, rtrace, rpassword, rusers, rui, rsa, rdeferred, rstats, rstatsBackup,
                 rtoVisit, rvalErrs, rcompared, rret, grantLog, viewerHeld>>
  /\ UNCHANGED <<waitVars, backupVars, unitVars>>

\* The deferred cleanup, second statement:
\*   err = c.AddRoleBindingToGCSBucket(opts.Bucket, "roles/storage.objectViewer", ...)
CleanupViewerRevokes(pol, sa, io) ==
  RemoveRoleBindingToGCSBucket(pol, RoleObjectViewer, sa, io)

CleanupViewer(pol, sa, io) ==
  AddRoleBindingToGCSBucket(pol, RoleObjectViewer, sa, io)

RestoreDeferAddViewer ==
  /\ rpc = "defers"
  /\ rdstep = 2
  /\ \E io \in GrantIO :
       LET r == CleanupViewer(policy, rsa, io) IN
       /\ policy' = r.policy
       /\ grantLog' = grantLog \cup {<<"cleanup", rsa, r.err>>}
  /\ viewerHeld' = (viewerHeld \/ HasRole(policy', SvcAcctMember(rsa), RoleObjectViewer))
  /\ rpc' = "done"
  /\ rdstep' = 0
  /\ UNCHANGED <<ropts, rtrace, rpassword, rusers, rui, rsa, rdeferred, rstats, rstatsBackup,
                 rtoVisit, rvalErrs, rcompared, rret>>
  /\ UNCHANGED <<waitVars, revokeLog, backupVars, unitVars>>

\* --------------------------------- EnumerateCloudSQLDatabaseInstances

\* The instanceID argument: empty, an instance of the project, or a name the
\* project does not list.
InstanceFilters == {"", "i1", "i3"}

\* What Instances.List reports: the project's instances, each once.
ProjectLists == {<<>>, <<"i1">>, <<"i2">>, <<"i1", "i2">>, <<"i2", "i1">>}

\* if instanceID == "" { ...Instances.List... } else { enumerated = append(enumerated, instanceID) }
ListAlwaysNeeded(instanceID) == TRUE

ListNeeded(instanceID) == instanceID = ""

EnumReturn(instances, e) ==
  /\ eret' = [returned |-> TRUE, instances |-> instances, err |-> e]
  /\ epc' = "done"

\* The instance list is fetched, or the filter is the one enumerated name.
EnumList ==
  /\ epc = "start"
  /\ IF ListNeeded(einstanceID)
       THEN /\ elistCalls' = elistCalls + 1
            /\ \E ok \in BOOLEAN :
                 IF ok THEN /\ enumerated' = eproject
                            /\ epc' = "loop"
                            /\ UNCHANGED eret
                       ELSE /\ EnumReturn(<<>>, ErrEnumerate)
                            /\ UNCHANGED enumerated
       ELSE /\ enumerated' = <<einstanceID>>
            /\ epc' = "loop"
            /\ UNCHANGED <<elistCalls, eret>>
  /\ UNCHANGED <<einstanceID, eproject, einstances>>
  /\ UNCHANGED <<pcalls, dbReported, dbListed, locVars, raceVars, secretVars,
                 waitVars, callerVars>>

\* for _, instance := range enumerated: the databases of the instance are
\* listed and stored under its name; an error returns nil and the error.
EnumListDatabases ==
  /\ epc = "loop"
  /\ enumerated # <<>>
  /\ LET instance == Head(enumerated) IN
     \E ok \in BOOLEAN :
       IF ok
         THEN \E l \in DbLists :
                /\ einstances' = [i \in DOMAIN einstances \cup {instance} |->
                                    IF i = instance THEN AppendDatabases(<<>>, Reported(l))
                                    ELSE einstances[i]]
                /\ enumerated' = Tail(enumerated)
                /\ UNCHANGED <<epc, eret>>
         ELSE /\ EnumReturn(<<>>, ErrListDatabases)
              /\ UNCHANGED <<enumerated, einstances>>
  /\ UNCHANGED <<einstanceID, eproject, elistCalls>>
  /\ UNCHANGED <<pcalls, dbReported, dbListed, locVars, raceVars, secretVars,
                 waitVars, callerVars>>

\* return instances, nil
EnumDone ==
  /\ epc = "loop"
  /\ enumerated = <<>>
  /\ EnumReturn(einstances, Nil)
  /\ UNCHANGED <<einstanceID, eproject, enumerated, einstances, elistCalls>>
  /\ UNCHANGED <<pcalls, dbReported, dbListed, locVars, raceVars, secretVars,
                 waitVars, callerVars>>

\* ------------------------- the root credential over successive Restore runs

MaxRuns == 3

ErrSecret == <<"secretmanager: error">>
ErrSecretExists == <<"secretmanager: AlreadyExists">>

\* if opts.StoreSecret { err := c.savePassword(password, dbinstance.Name) ... }
PersistNever(storeSecret) == FALSE

PersistNeeded(storeSecret) == storeSecret

SecretRunEnds(e) ==
  /\ serr' = e
  /\ spc' = "done"

\* db, err := c.sqlAdminSvc.Instances.Get(...): the branch on db == nil.
SecretGetInstance ==
  /\ spc = "start"
  /\ \E ok \in BOOLEAN :
       IF ok
         THEN /\ spc' = IF sinstance.exists THEN "accessSecret"
                        ELSE IF PersistNeeded(sopts) THEN "getSecret"
                        ELSE "insertInstance"
              /\ UNCHANGED serr
         ELSE SecretRunEnds(ErrGetInstance)
  /\ UNCHANGED <<srun, sopts, spassword, sfound, sinstance, ssecret>>
  /\ UNCHANGED <<pcalls, dbReported, dbListed, locVars, raceVars, enumVars,
                 waitVars, callerVars>>

\* savePassword: secret, err := c.secretSvc.GetSecret(...); the error is only
\* logged, and secret is nil unless the call found the secret.
SecretGetSecret ==
  /\ spc = "getSecret"
  /\ \E ok \in BOOLEAN :
       /\ sfound' = (ok /\ ssecret.exists)
       /\ spc' = IF sfound' THEN "deleteSecret" ELSE "createSecret"
  /\ UNCHANGED <<srun, sopts, spassword, sinstance, ssecret, serr>>
  /\ UNCHANGED <<pcalls, dbReported, dbListed, locVars, raceVars, enumVars,
                 waitVars, callerVars>>

\* if secret != nil { err := c.secretSvc.DeleteSecret(...) ... }
SecretDelete ==
  /\ spc = "deleteSecret"
  /\ \E ok \in BOOLEAN :
       IF ok THEN /\ ssecret' = NoSecret
                  /\ spc' = "createSecret"
                  /\ UNCHANGED serr
             ELSE /\ SecretRunEnds(ErrSecret)
                  /\ UNCHANGED ssecret
  /\ UNCHANGED <<srun, sopts, spassword, sfound, sinstance>>
  /\ UNCHANGED <<pcalls, dbReported, dbListed, locVars, raceVars, enumVars,
                 waitVars, callerVars>>

\* secret, err = c.secretSvc.CreateSecret(...): a secret of that name that
\* still exists makes the call fail.
SecretCreate ==
  /\ spc = "createSecret"
  /\ IF ssecret.exists
       THEN /\ SecretRunEnds(ErrSecretExists)
            /\ UNCHANGED ssecret
       ELSE \E ok \in BOOLEAN :
              IF ok THEN /\ ssecret' = [exists |-> TRUE, versions |-> <<>>]
                         /\ spc' = "addVersion"
                         /\ UNCHANGED serr
                    ELSE /\ SecretRunEnds(ErrSecret)
                         /\ UNCHANGED ssecret
  /\ UNCHANGED <<srun, sopts, spassword, sfound, sinstance>>
  /\ UNCHANGED <<pcalls, dbReported, dbListed, locVars, raceVars, enumVars,
                 waitVars, callerVars>>

\* _, err := c.secretSvc.AddSecretVersion(...) with the password as payload
SecretAddVersion ==
  /\ spc = "addVersion"
  /\ \E ok \in BOOLEAN :
       IF ok THEN /\ ssecret' = [ssecret EXCEPT !.versions = Append(@, spassword)]
                  /\ spc' = "insertInstance"
                  /\ UNCHANGED serr
             ELSE /\ SecretRunEnds(ErrSecret)
                  /\ UNCHANGED ssecret
  /\ UNCHANGED <<srun, sopts, spassword, sfound, sinstance>>
  /\ UNCHANGED <<pcalls, dbReported, dbListed, locVars, raceVars, enumVars,
                 waitVars, callerVars>>

\* Instances.Insert with RootPassword: password, then the wait: the instance
\* is created and the wait succeeds, nothing is created, or the instance is
\* created although the wait returned an error.
SecretInsertInstance ==
  /\ spc = "insertInstance"
  /\ \E out \in {"created", "failed", "createdWaitFailed"} :
       /\ sinstance' = IF out = "failed" THEN sinstance
                        ELSE [exists |-> TRUE, RootPassword |-> spassword, stored |-> sopts]
       /\ SecretRunEnds(IF out = "created" THEN Nil ELSE ErrInsertInstance)
  /\ UNCHANGED <<srun, sopts, spassword, sfound, ssecret>>
  /\ UNCHANGED <<pcalls, dbReported, dbListed, locVars, raceVars, enumVars,
                 waitVars, callerVars>>

\* secretVersion, err := c.secretSvc.AccessSecretVersion(.../versions/latest);
\* password = string(secretVersion.Payload.Data)
SecretAccess ==
  /\ spc = "accessSecret"
  /\ \E ok \in BOOLEAN :
       IF ok /\ ssecret.exists /\ ssecret.versions # <<>>
         THEN /\ spassword' = ssecret.versions[Len(ssecret.versions)]
              /\ SecretRunEnds(Nil)
         ELSE /\ SecretRunEnds(ErrAccessSecret)
              /\ UNCHANGED spassword
  /\ UNCHANGED <<srun, sopts, sfound, sinstance, ssecret>>
  /\ UNCHANGED <<pcalls, dbReported, dbListed, locVars, raceVars, enumVars,
                 waitVars, callerVars>>

\* The next run of Restore for the same target: password := generatePassword(12)
SecretNextRun ==
  /\ spc = "done"
  /\ srun < MaxRuns
  /\ srun' = srun + 1
  /\ spassword' = srun + 1
  /\ sopts' \in BOOLEAN
  /\ spc' = "start"
  /\ sfound' = FALSE
  /\ serr' = Nil
  /\ UNCHANGED <<sinstance, ssecret>>
  /\ UNCHANGED <<pcalls, dbReported, dbListed, locVars, raceVars, enumVars,
                 waitVars, callerVars>>

\* ---------------------------------------------------------- specifications

InitWait ==
  /\ wpc = "call"
  /\ wop \in {NilOp} \cup OpNames
  /\ ctxDone \in BOOLEAN
  /\ cancelledIn = IF ctxDone THEN "before" ELSE "none"
  /\ wlast = NoFetch /\ wres = Nil /\ nFetch = 0 /\ nSleep = 0
  /\ wokeAfterCancel = FALSE /\ fetchAfterCancel = FALSE
  /\ policy = EmptyPolicy /\ revokeLog = {}
  /\ BackupIdle
  /\ RestoreIdle
  /\ UnitIdle

NextWait == WaitEnter \/ WaitSelect \/ WaitWake \/ WaitFetch \/ Cancel

SpecWait == InitWait /\ [][NextWait]_vars

InitBackup ==
  /\ WaitIdle /\ ctxDone = FALSE
  /\ policy \in InitialPolicies
  /\ revokeLog = {}
  /\ bpc = "start"
  /\ bcmd = DirectCall
  /\ bopts \in BackupOptionSets
  /\ breported = <<>> /\ bloc = NoLocation /\ bwritten = {} /\ bconnected = FALSE
  /\ binstances = <<>> /\ btodo = {} /\ bcur = NoInstance /\ bsa = NoSvcAcct
  /\ bdbIdx = 0 /\ blocs = <<>> /\ bdefers = <<>> /\ bdstep = 0
  /\ backupPaths = <<>> /\ rerr = Nil /\ bfirst = Nil /\ bobtained = {}
  /\ RestoreIdle
  /\ UnitIdle

NextBackup ==
  \/ BackupEnumerate \/ BackupNextInstance \/ BackupGetSvcAcct
  \/ BackupAddCreator \/ BackupAddViewer
  \/ BackupExportUser \/ BackupExportStats
  \/ BackupExportDb \/ BackupExportWaited
  \/ BackupDeferRemoveCreator \/ BackupDeferRemoveViewer \/ BackupExit
  \/ WaitEnter \/ WaitSelect \/ WaitWake \/ WaitFetch

SpecBackup == InitBackup /\ [][NextBackup]_vars

\* Backup runs on a bucket whose policy already holds both roles for the
\* service account of instance i1.
HeldPolicy == PolicyOf({UnrelatedBinding} \cup PreexistingBindings)

InitBackupHeld == InitBackup /\ policy = HeldPolicy

SpecBackupHeld == InitBackupHeld /\ [][NextBackup]_vars

\* The backup command: execute builds the options from the flags and calls
\* Backup.
InitBackupCmd ==
  /\ WaitIdle /\ ctxDone = FALSE
  /\ policy = PolicyOf({UnrelatedBinding})
  /\ revokeLog = {}
  /\ bpc = "start"
  /\ \E flags \in BackupFlagSets :
       /\ bcmd = [viaCommand |-> TRUE, flags |-> flags]
       /\ bopts = execute(flags)
  /\ breported = <<>> /\ bloc = NoLocation /\ bwritten = {} /\ bconnected = FALSE
  /\ binstances = <<>> /\ btodo = {} /\ bcur = NoInstance /\ bsa = NoSvcAcct
  /\ bdbIdx = 0 /\ blocs = <<>> /\ bdefers = <<>> /\ bdstep = 0
  /\ backupPaths = <<>> /\ rerr = Nil /\ bfirst = Nil /\ bobtained = {}
  /\ RestoreIdle
  /\ UnitIdle

SpecBackupCmd == InitBackupCmd /\ [][NextBackup]_vars

InitPolicy ==
  /\ WaitIdle /\ ctxDone = FALSE
  /\ policy \in PolicyStarts
  /\ revokeLog = {}
  /\ BackupIdle
  /\ RestoreIdle
  /\ pcalls = <<>>
  /\ ListUnitIdle
  /\ LocUnitIdle
  /\ RaceUnitIdle /\ MoreUnitsIdle

NextPolicy == PolicyGrant \/ PolicyRevoke

SpecPolicy == InitPolicy /\ [][NextPolicy]_vars

InitRace ==
  /\ WaitIdle /\ ctxDone = FALSE
  /\ policy = PolicyOf({UnrelatedBinding})
  /\ revokeLog = {}
  /\ BackupIdle /\ RestoreIdle
  /\ PolicyUnitIdle /\ ListUnitIdle /\ LocUnitIdle /\ MoreUnitsIdle
  /\ gversion = 0
  /\ gruns \in [RaceRuns -> {[prog |-> prog, idx |-> 1, pc |-> "read",
                               read |-> [policy |-> EmptyPolicy, version |-> 0],
                               err |-> Nil] : prog \in RacePrograms}]
  /\ gevents = <<>>

NextRace == RaceRead \/ RaceWrite

SpecRace == InitRace /\ [][NextRace]_vars

InitList ==
  /\ WaitIdle /\ ctxDone = FALSE
  /\ policy = EmptyPolicy /\ revokeLog = {}
  /\ BackupIdle
  /\ RestoreIdle
  /\ PolicyUnitIdle
  /\ LocUnitIdle
  /\ RaceUnitIdle /\ MoreUnitsIdle
  /\ dbReported \in ReportedLists
  /\ dbListed = NotReturned

NextList == ListDatabasesForCloudSQLInstance

SpecList == InitList /\ [][NextList]_vars

InitLocation ==
  /\ WaitIdle /\ ctxDone = FALSE
  /\ policy = EmptyPolicy /\ revokeLog = {}
  /\ BackupIdle
  /\ RestoreIdle
  /\ PolicyUnitIdle /\ ListUnitIdle /\ RaceUnitIdle /\ MoreUnitsIdle
  /\ lparsed = NotReturned /\ luser = NoString /\ lstats = NoString
  /\ \/ /\ lshape = NoShape /\ lfile = NoString
        /\ lloc \in Locations /\ ldatabase \in LocDatabases
     \/ /\ lshape \in Shapes /\ lfile = ShapeFile(lshape)
        /\ lloc = NoLocation /\ ldatabase = NoString

NextLocation ==
  LocDatabaseLocation \/ LocNewLocation \/ LocUserLocation \/ LocStatsLocation

SpecLocation == InitLocation /\ [][NextLocation]_vars

InitRestore ==
  /\ WaitIdle /\ ctxDone = FALSE
  /\ policy \in RestoreInitialPolicies
  /\ revokeLog = {}
  /\ BackupIdle
  /\ rpc = "start"
  /\ ropts \in RestoreOptionSets
  /\ rtrace = <<>>
  /\ rpassword = "generated"
  /\ rusers = <<>> /\ rui = 0 /\ rsa = NoSvcAcct
  /\ rdeferred = FALSE /\ rdstep = 0
  /\ rstats = NoStats /\ rstatsBackup = NoStats /\ rtoVisit = {} /\ rvalErrs = <<>>
  /\ rcompared = FALSE /\ rret = NoResult /\ grantLog = {} /\ viewerHeld = FALSE
  /\ UnitIdle

NextRestore ==
  \/ RestoreGetInstance \/ RestoreSavePassword \/ RestoreInsertInstance
  \/ RestoreInstanceWaited \/ RestoreAccessSecret
  \/ RestoreGetDatabase \/ RestoreInsertDatabase \/ RestoreDatabaseWaited
  \/ RestoreReadUsers \/ RestoreGetUser \/ RestoreInsertUser \/ RestoreUserWaited
  \/ RestoreGetSvcAcct \/ RestoreAddLegacyReader \/ RestoreAddViewer
  \/ RestoreImport \/ RestoreImportWaited
  \/ RestoreGetStats \/ RestoreStatAttrs \/ RestoreOpenStats \/ RestoreDecodeStats
  \/ RestoreValidate
  \/ RestoreDeferRemoveLegacy \/ RestoreDeferAddViewer
  \/ WaitEnter \/ WaitSelect \/ WaitWake \/ WaitFetch

SpecRestore == InitRestore /\ [][NextRestore]_vars

\* One run: of the backup command or of Restore.
InitRuns == InitBackupCmd \/ InitRestore

NextRuns == NextBackup \/ NextRestore

SpecRuns == InitRuns /\ [][NextRuns]_vars

InitEnum ==
  /\ WaitIdle /\ ctxDone = FALSE
  /\ policy = EmptyPolicy /\ revokeLog = {}
  /\ BackupIdle /\ RestoreIdle
  /\ PolicyUnitIdle /\ ListUnitIdle /\ LocUnitIdle /\ RaceUnitIdle /\ SecretUnitIdle
  /\ einstanceID \in InstanceFilters
  /\ eproject \in ProjectLists
  /\ epc = "start" /\ enumerated = <<>> /\ einstances = <<>>
  /\ elistCalls = 0 /\ eret = NotReturned

NextEnum == EnumList \/ EnumListDatabases \/ EnumDone

SpecEnum == InitEnum /\ [][NextEnum]_vars

InitSecret ==
  /\ WaitIdle /\ ctxDone = FALSE
  /\ policy = EmptyPolicy /\ revokeLog = {}
  /\ BackupIdle /\ RestoreIdle
  /\ PolicyUnitIdle /\ ListUnitIdle /\ LocUnitIdle /\ RaceUnitIdle /\ EnumUnitIdle
  /\ srun = 1 /\ spassword = 1
  /\ sopts \in BOOLEAN
  /\ spc = "start" /\ sfound = FALSE /\ serr = Nil
  /\ sinstance = NoRestoreInstance
  /\ ssecret = NoSecret

NextSecret ==
  \/ SecretGetInstance \/ SecretGetSecret \/ SecretDelete \/ SecretCreate
  \/ SecretAddVersion \/ SecretInsertInstance \/ SecretAccess \/ SecretNextRun

SpecSecret == InitSecret /\ [][NextSecret]_vars

\* The wait under the scheduling the code gives it: the steps of the loop
\* are taken as long as they are possible; the context has no deadline, so
\* nothing makes the cancellation fire.
SpecWaitFair ==
  InitWait /\ [][NextWait]_vars
    /\ WF_vars(WaitEnter \/ WaitSelect \/ WaitWake \/ WaitFetch)

\* --------------------------------------------------------- claims: Backup

BackupDone == bpc = "done"

RevokeCalled(role, sa) == \E x \in revokeLog : x[1] = role /\ x[2] = sa
RevokeSucceeded(role, sa) == <<role, sa, Nil>> \in revokeLog

\* C1: in temporary mode, when Backup has returned (with or without an
\* error), RemoveRoleBindingToGCSBucket has been called for objectCreator and
\* for objectViewer of every service account that was obtained, and an account
\* whose two revocations returned no error holds neither role.
C1_TempRolesRevokedOnEveryExit ==
  BackupDone =>
    \A sa \in bobtained :
      /\ RevokeCalled(RoleObjectCreator, sa)
      /\ RevokeCalled(RoleObjectViewer, sa)
      /\ (RevokeSucceeded(RoleObjectCreator, sa) /\ RevokeSucceeded(RoleObjectViewer, sa))
           => /\ ~HasRole(policy, SvcAcctMember(sa), RoleObjectCreator)
              /\ ~HasRole(policy, SvcAcctMember(sa), RoleObjectViewer)

\* An export wait failed for the second instance, both accounts were granted
\* the roles in this run and both were revoked.
C1_Witness ==
  /\ BackupDone
  /\ bopts.EnsureIamBindingsTemp
  /\ rerr # Nil /\ rerr[1] = "operation failed: "
  /\ Cardinality(bobtained) = 2
  /\ \A sa \in bobtained :
       RevokeSucceeded(RoleObjectCreator, sa) /\ RevokeSucceeded(RoleObjectViewer, sa)

\* -------------------------------------------------------- claims: Restore

RestoreDone == rpc = "done"
RestoreMember == SvcAcctMember(RestoreSvcAcct)

\* C2 as claimed: once the service account is obtained, after Restore has
\* returned the account does not hold legacyBucketReader and holds
\* objectViewer.
C2_LegacyRevokedViewerKept ==
  (RestoreDone /\ rsa # NoSvcAcct) =>
    /\ ~HasRole(policy, RestoreMember, RoleLegacyBucketReader)
    /\ HasRole(policy, RestoreMember, RoleObjectViewer)

\* C2 as amended: once the service account is obtained, on every exit path
\* the revocation of legacyBucketReader has been called, and if it returned
\* no error the account does not hold that role after Restore returns;
\* objectViewer is never revoked, and the account holds it after the return
\* whenever it held it at some point of the run or the cleanup's re-grant
\* returned no error.
C2_LegacyRevokeCalledViewerNeverRevoked ==
  (RestoreDone /\ rsa # NoSvcAcct) =>
    /\ RevokeCalled(RoleLegacyBucketReader, rsa)
    /\ RevokeSucceeded(RoleLegacyBucketReader, rsa)
         => ~HasRole(policy, RestoreMember, RoleLegacyBucketReader)
    /\ ~RevokeCalled(RoleObjectViewer, rsa)
    /\ (viewerHeld \/ <<"cleanup", rsa, Nil>> \in grantLog)
         => HasRole(policy, RestoreMember, RoleObjectViewer)

\* The import wait failed, the revocation removed the binding and the
\* account still holds objectViewer.
C2_Witness ==
  /\ RestoreDone /\ rsa # NoSvcAcct
  /\ rret.err # Nil /\ rret.err[1] = "operation failed: "
  /\ <<RoleLegacyBucketReader, rsa, Nil>> \in grantLog
  /\ RevokeSucceeded(RoleLegacyBucketReader, rsa)
  /\ ~HasRole(policy, RestoreMember, RoleLegacyBucketReader)
  /\ HasRole(policy, RestoreMember, RoleObjectViewer)

ComparisonDone == RestoreDone /\ rcompared

\* C3: when the statistics artifact was read, a table of the backup
\* statistics without an entry in the post-restore statistics makes Restore
\* return an error.
C3_TableLostByRestoreFails ==
  (ComparisonDone /\ \E t \in DOMAIN rstatsBackup : t \notin DOMAIN rstats)
    => rret.err # Nil

\* The tables the loop visits, those of them without an entry to compare
\* with, and those whose two row counts differ.
Compared == DOMAIN rstats
Missing == {t \in Compared : t \notin DOMAIN rstatsBackup}
Differing == {t \in Compared \ Missing : rstats[t] # rstatsBackup[t]}

MismatchText(t) ==
  <<"row count mismatch key: ", t, ", value: ", FormatInt(rstats[t]),
    ", backup: ", FormatInt(rstatsBackup[t])>>

MismatchLines(text) == {i \in DOMAIN text : text[i] = "row count mismatch key: "}

WaitReturned == wpc = "ret"

LastFetchCleanDone ==
  /\ nFetch > 0
  /\ wlast.err = Nil
  /\ wlast.status = "DONE"
  /\ ~wlast.opError.present

\* C6: WaitForSQLOperation has returned success if and only if the most
\* recent status fetch reported status DONE with no error; a last response
\* that is not terminal, carries an error or failed never yields success, and
\* a clean DONE response is never followed by more polling.
C6_SuccessIffLastFetchCleanDone ==
  /\ WaitReturned => (wres = Nil <=> LastFetchCleanDone)
  /\ LastFetchCleanDone => WaitReturned

C6_Witness == WaitReturned /\ wres = Nil /\ nFetch >= 2

MessageTokens(text) == {i \in DOMAIN text : text[i] \in Messages}

\* C7: when the fetched operation carries one or more errors, the returned
\* failure is an "operation failed" error whose text holds every reported
\* message, as many as were reported, in the reported order.
C7_FailureHoldsEveryMessage ==
  (WaitReturned /\ wlast.err = Nil /\ wlast.opError.present) =>
    LET errs == wlast.opError.errors IN
    /\ wres # Nil
    /\ wres[1] = "operation failed: "
    /\ \A i \in DOMAIN errs : Contains(wres, <<errs[i]>>)
    /\ Cardinality(MessageTokens(wres)) = Len(errs)
    /\ \A i \in 1..(Len(errs) - 1) : Contains(wres, <<errs[i], " ", errs[i + 1]>>)

C7_Witness ==
  /\ WaitReturned /\ wlast.opError.present
  /\ wlast.opError.errors = <<"m1", "m2">>
  /\ nFetch >= 2

\* C8: the wait returns the timeout error whenever the cancellation signal
\* fired before any status fetch observed a terminal status, and never
\* reports a timeout after a terminal status was observed.
C8_TimeoutWhenCancelledBeforeTerminal ==
  (WaitReturned /\ wop # NilOp) =>
    /\ ctxDone => wres = ErrTimeout
    /\ wres = ErrTimeout => wlast.status # "DONE"

\* C9: a cancellation that fires during the sleep between two polls ends the
\* wait with the timeout error at once: the sleep does not run to its end
\* and no status fetch is issued after the cancellation.
C9_CancelDuringSleepIsPrompt ==
  cancelledIn = "sleep" =>
    /\ ~wokeAfterCancel
    /\ ~fetchAfterCancel
    /\ WaitReturned => wres = ErrTimeout

\* C10: called with a nil operation handle, WaitForSQLOperation returns an
\* error in its first step, having slept and fetched nothing.
C10_NilOpFailsWithoutPolling ==
  (wop = NilOp /\ wpc # "call" /\ wpc # "idle") =>
    /\ WaitReturned
    /\ wres = ErrNilOp
    /\ wres # Nil
    /\ nFetch = 0 /\ nSleep = 0

C10_Witness == wop = NilOp /\ WaitReturned /\ ctxDone

\* ------------------------------------------ claims: role bindings of a bucket

CallMember(c) == SvcAcctMember(c.sa)
SameBinding(c, d) == c.role = d.role /\ c.sa = d.sa
\* The bindings of a policy other than the call's own.
OtherBindings(pol, c) == [b \in DOMAIN pol \ {<<c.role, CallMember(c)>>} |-> pol[b]]

\* C11: a grant that follows a successful grant of the same role to the same
\* principal on the same bucket leaves the policy the first grant left, with
\* exactly one membership entry of the principal under the role, and issues
\* no write-back; it returns no error unless its policy fetch fails.
C11_GrantTwiceIsGrantOnce ==
  \A i \in 1..(Len(pcalls) - 1) :
    LET c == pcalls[i]  d == pcalls[i + 1] IN
    (c.op = "add" /\ d.op = "add" /\ SameBinding(c, d) /\ c.err = Nil) =>
      /\ d.after = c.after
      /\ Entries(d.after, CallMember(d), d.role) = 1
      /\ d.setCalls = 0
      /\ d.io # "getfail" => d.err = Nil

\* Two grants of the same binding in a row, the first of which added it.
C11_Witness ==
  /\ Len(pcalls) = 2
  /\ pcalls[1].op = "add" /\ pcalls[2].op = "add" /\ SameBinding(pcalls[1], pcalls[2])
  /\ pcalls[1].io = "ok" /\ pcalls[2].io = "ok"
  /\ ~HasRole(pcalls[1].before, CallMember(pcalls[1]), pcalls[1].role)
  /\ pcalls[1].setCalls = 1
  /\ Entries(policy, CallMember(pcalls[2]), pcalls[2].role) = 1

\* The call found nothing to do: a grant of a role held, a revocation of a
\* role not held.
NothingToDo(c) ==
  IF c.op = "add" THEN HasRole(c.before, CallMember(c), c.role)
  ELSE ~HasRole(c.before, CallMember(c), c.role)

Listed == dbListed.returned /\ dbListed.err = Nil
SystemDatabases == {"mysql", "postgres"}
\* Positions of the reported list that hold a name other than mysql and
\* postgres.
KeptPositions == {i \in DOMAIN dbReported : dbReported[i] \notin SystemDatabases}

\* C13: the returned list holds no database named mysql or postgres, and it
\* is the reported list without the entries of those two names: every other
\* reported entry is returned, once per report, in the reported order.
C13_SystemDatabasesDropped ==
  Listed =>
    LET out == dbListed.databases IN
    /\ \A i \in DOMAIN out : out[i] \notin SystemDatabases
    /\ Len(out) = Cardinality(KeptPositions)
    /\ \A i \in KeptPositions :
         out[Cardinality({j \in KeptPositions : j <= i})] = dbReported[i]

\* Both system databases reported among others, one of them a near miss of
\* a system name.
C13_Witness ==
  /\ Listed
  /\ dbReported = <<"postgres", "postgres2", "mysql">>
  /\ dbListed.databases = <<"postgres2">>

\* ------------------------------------------------ claims: backup locations

\* The file was built by DatabaseLocation and parsed by NewLocation.
BuiltAndParsed ==
  lshape = NoShape /\ lfile # NoString /\ lparsed # NotReturned

\* C14: parsing the database location built from (bucket, instance,
\* database, timestamp, compression flag) yields the same five values.
C14_ParseOfBuildIsIdentity ==
  BuiltAndParsed =>
    /\ ~lparsed.panic
    /\ lparsed.Bucket = lloc.Bucket
    /\ lparsed.Instance = lloc.Instance
    /\ lparsed.Database = ldatabase
    /\ lparsed.Time = lloc.Time
    /\ lparsed.Compression = lloc.Compression

\* C15: for a database name of one or more hyphen-separated tokens and a
\* timestamp without hyphen or dot, the Database and Time parsed from the
\* built database location are the database name and the timestamp, with
\* and without compression.
C15_DatabaseAndTimeRoundTrip ==
  BuiltAndParsed =>
    /\ ~lparsed.panic
    /\ lparsed.Database = ldatabase
    /\ lparsed.Time = lloc.Time

\* A compressed location of a database name of three tokens.
C15_Witness ==
  /\ BuiltAndParsed
  /\ lloc.Compression
  /\ ldatabase = <<"pay", "-", "events", "-", "pay">>
  /\ lparsed.Database = <<"pay", "-", "events", "-", "pay">>
  /\ lparsed.Time = <<"20240404T152957">>

GivenAndParsed == lshape # NoShape /\ lparsed # NotReturned

\* The base name of the given file, and in it the position of the last
\* hyphen and of the first dot after that hyphen.
GivenBase == ShapeBase(lshape)
GivenLastHyphen == LastIndex(GivenBase, "-")
GivenFirstDot ==
  CHOOSE i \in (GivenLastHyphen + 1)..Len(GivenBase) :
    GivenBase[i] = "." /\ \A j \in (GivenLastHyphen + 1)..(i - 1) : GivenBase[j] # "."

\* C16: for a path scheme://bucket/instance/.../database-timestamp.ext,
\* NewLocation yields the bucket, the instance, the directory part after the
\* bucket with a trailing slash, the base name up to its last hyphen, and the
\* part between that hyphen and the first dot after it.
C16_NewLocationParts ==
  GivenAndParsed =>
    /\ ~lparsed.panic
    /\ lparsed.Bucket = lshape.bucket
    /\ lparsed.Instance = lshape.instance
    /\ lparsed.Path = Join(<<lshape.instance>> \o lshape.dirs, "/") \o <<"/">>
    /\ lparsed.Database = SubSeq(GivenBase, 1, GivenLastHyphen - 1)
    /\ lparsed.Database = lshape.database
    /\ lparsed.Time = SubSeq(GivenBase, GivenLastHyphen + 1, GivenFirstDot - 1)
    /\ lparsed.Time = lshape.time

\* gs://b/payment-service/cloudsql/payment-events-20240404T152957.sql.gz
C16_Witness ==
  /\ GivenAndParsed
  /\ lfile = <<"gs", ":", "/", "/", "b", "/", "payment", "-", "service", "/",
               "cloudsql", "/", "payment", "-", "events", "-",
               "20240404T152957", ".", "sql", ".", "gz">>
  /\ lparsed.Bucket = <<"b">>
  /\ lparsed.Instance = <<"payment", "-", "service">>
  /\ lparsed.Path = <<"payment", "-", "service", "/", "cloudsql", "/">>
  /\ lparsed.Database = <<"payment", "-", "events">>
  /\ lparsed.Time = <<"20240404T152957">>

Built == lshape = NoShape /\ lfile # NoString

\* C17: DatabaseLocation returns gs://{Bucket}/{Instance}/cloudsql/
\* {database}-{Time}.sql without compression and the same with .sql.gz with
\* compression.
C17_DatabaseLocationFormat ==
  Built =>
    lfile = <<"gs", ":", "/", "/">> \o lloc.Bucket \o <<"/">> \o lloc.Instance
              \o <<"/", "cloudsql", "/">> \o ldatabase \o <<"-">> \o lloc.Time
              \o (IF lloc.Compression THEN <<".", "sql", ".", "gz">> ELSE <<".", "sql">>)

C17_Witness ==
  /\ Built /\ lloc.Compression
  /\ lfile = <<"gs", ":", "/", "/", "flink", "-", "backup", "/", "payment", "-",
               "service", "/", "cloudsql", "/", "pay", "-", "events", "-",
               "20240404T152957", ".", "sql", ".", "gz">>

\* C18: UserLocation is {Path}users-{Time}.txt and StatsLocation(database)
\* is {Path}stats-{database}-{Time}.yaml; a Location with the same Path and
\* Time yields the same two paths whatever its Bucket, Instance, Database
\* and Compression.
C18_SiblingPathsDependOnPathAndTime ==
  /\ luser # NoString =>
       /\ luser = lloc.Path \o <<"users", "-">> \o lloc.Time \o <<".", "txt">>
       /\ \A other \in Locations :
            (other.Path = lloc.Path /\ other.Time = lloc.Time)
              => UserLocation(other) = luser
  /\ lstats # NoString =>
       /\ lstats = lloc.Path \o <<"stats", "-">> \o ldatabase \o <<"-">>
                     \o lloc.Time \o <<".", "yaml">>
       /\ \A other \in Locations :
            (other.Path = lloc.Path /\ other.Time = lloc.Time)
              => StatsLocation(other, ldatabase) = lstats

\* Both paths computed for a Location whose Path is not that of its Instance.
C18_Witness ==
  /\ lloc.Instance = <<"pricing">>
  /\ luser = <<"payment", "-", "service", "/", "cloudsql", "/", "users", "-",
               "20240404T152957", ".", "txt">>
  /\ ldatabase = <<"pay", "-", "events">>
  /\ lstats = <<"payment", "-", "service", "/", "cloudsql", "/", "stats", "-",
                "pay", "-", "events", "-", "20240404T152957", ".", "yaml">>

\* --------------------------------------------- claims: what Backup returns

BackupSucceeded == BackupDone /\ rerr = Nil

\* The databases reported for instance i other than mysql and postgres.
NonSystem(i) ==
  {breported[i][k] : k \in {j \in DOMAIN breported[i] : breported[i][j] \notin SystemDatabases}}

\* gs://{bucket}/{instance}/cloudsql/{database}-{timestamp}.sql[.gz]
ExpectedDatabasePath(i, d, t) ==
  <<"gs", ":", "/", "/">> \o BackupBucket \o <<"/", i, "/", "cloudsql", "/", d, "-", t>>
    \o (IF bopts.Compression THEN <<".", "sql", ".", "gz">> ELSE <<".", "sql">>)
ExpectedUsersPath(i, t) == <<i, "/", "cloudsql", "/", "users", "-", t, ".", "txt">>
ExpectedStatsPath(i, d, t) ==
  <<i, "/", "cloudsql", "/", "stats", "-", d, "-", t, ".", "yaml">>

Occurrences(paths, p) == Cardinality({k \in DOMAIN paths : paths[k] = p})
ArtifactPaths(i, kind) == {f.path : f \in {g \in bwritten : g.instance = i /\ g.kind = kind}}

\* The timestamp token t is the one of every artifact of instance i.
SharedToken(i, t) ==
  /\ \A d \in NonSystem(i) : Occurrences(backupPaths, ExpectedDatabasePath(i, d, t)) = 1
  /\ ArtifactPaths(i, "users") = {ExpectedUsersPath(i, t)}
  /\ ArtifactPaths(i, "stats") =
       IF bopts.ExportStats THEN {ExpectedStatsPath(i, d, t) : d \in NonSystem(i)} ELSE {}

RECURSIVE SumOver(_, _)
SumOver(S, f) ==
  IF S = {} THEN 0 ELSE LET x == CHOOSE y \in S : TRUE IN f[x] + SumOver(S \ {x}, f)

\* C19: a Backup that returns no error returns one location for each
\* reported database other than mysql and postgres of each enumerated
\* instance and nothing else, each of the form gs://{bucket}/{instance}/
\* cloudsql/{database}-{timestamp}.sql[.gz], and for each instance one
\* timestamp token is that of all its database locations, of its user-list
\* artifact and of its statistics artifacts.
C19_OneLocationPerDatabaseSharedToken ==
  BackupSucceeded =>
    /\ Len(backupPaths) =
         SumOver(DOMAIN breported, [i \in DOMAIN breported |-> Cardinality(NonSystem(i))])
    /\ \A i \in DOMAIN breported :
         \E k \in DOMAIN ClockReadings : SharedToken(i, ClockReadings[k])

\* Two instances backed up at different seconds with compression and
\* statistics, one of them with the databases a, b, mysql and postgres.
C19_Witness ==
  /\ BackupSucceeded
  /\ bopts.Compression /\ bopts.ExportStats
  /\ DOMAIN breported = {"i1", "i2"}
  /\ breported["i1"] = <<"postgres", "a", "b", "mysql">>
  /\ breported["i2"] = <<"postgres", "a", "mysql">>
  /\ Len(backupPaths) = 3
  /\ \E k \in DOMAIN backupPaths :
       backupPaths[k] = <<"gs", ":", "/", "/", "b", "/", "i1", "/", "cloudsql", "/",
                          "b", "-", "20240404T152957", ".", "sql", ".", "gz">>
  /\ \E k \in DOMAIN backupPaths :
       backupPaths[k] = <<"gs", ":", "/", "/", "b", "/", "i2", "/", "cloudsql", "/",
                          "a", "-", "20240404T152958", ".", "sql", ".", "gz">>

\* C20: a backup command run without --stats opens no direct database
\* connection and writes no statistics artifact.
C20_NoStatsWithoutFlag ==
  (bcmd.viaCommand /\ ~bcmd.flags.stats) =>
    /\ ~bconnected
    /\ \A f \in bwritten : f.kind # "stats"

\* ------------------------------------------- claims: what Restore calls

\* The entries of the trace for one kind of call.
Calls(call) == {k \in DOMAIN rtrace : rtrace[k].call = call}
InstanceFound == \E k \in Calls("getInstance") : rtrace[k].out = "found"

\* C21: a Restore that returns no error returns the root credential of the
\* restore instance (the generated password, or the one read from the
\* secret store) or the name of the secret that holds it.
C21_ReturnsRootCredential ==
  (RestoreDone /\ rret.err = Nil) =>
    rret.val \in {<<rpassword>>, SecretName(RestoreTarget), SecretVersionName(RestoreTarget)}

\* C22: with a source path of too few segments for NewLocation, Restore
\* makes no remote call.
C22_MalformedPathMakesNoRemoteCall ==
  (NewLocation(ropts.File) = Panicked) =>
    /\ rtrace = <<>>
    /\ grantLog = {} /\ revokeLog = {}

\* C23: when the lookup of the instance restore-{source} finds it, Restore
\* neither saves a password nor inserts an instance, its next call reads
\* the secret version of the uppercased name, and when that fails Restore
\* has returned that error and nothing, with no call after it.
C23_ExistingInstanceUsesStoredSecret ==
  InstanceFound =>
    /\ rtrace[1] = Step("getInstance", <<"restore-", "i1">>, "found")
    /\ Calls("insertInstance") = {} /\ Calls("savePassword") = {}
    /\ Len(rtrace) = 1 => rpc = "accessSecret"
    /\ Len(rtrace) >= 2 =>
         /\ rtrace[2].call = "accessSecret"
         /\ rtrace[2].arg =
              <<"projects/", "p", "/secrets/", "RESTORE-", "I1", "/versions/latest">>
         /\ rtrace[2].out = "ok" => rpassword = "secret"
         /\ rtrace[2].out = "error" =>
              /\ RestoreDone /\ Len(rtrace) = 2
              /\ rret = [val |-> <<>>, err |-> ErrAccessSecret]
              /\ rpassword = "generated"
              /\ rusers = <<>> /\ rsa = NoSvcAcct /\ grantLog = {} /\ ~rdeferred

\* The instance exists and the secret cannot be read.
C23_Witness ==
  /\ RestoreDone
  /\ rtrace = <<Step("getInstance", RestoreTarget, "found"),
                Step("accessSecret", SecretVersionName(RestoreTarget), "error")>>
  /\ rret.err = ErrAccessSecret

\* C24: after Restore has returned, when the existence check of the
\* statistics artifact reported that it does not exist, Restore made no
\* comparison and returned no error; when the check reported another
\* error, or opening or decoding the artifact failed, Restore returned
\* that error.
C24_MissingStatsSkipsOtherErrorsFail ==
  RestoreDone =>
    /\ \A k \in Calls("attrs") :
         /\ rtrace[k].out = ErrObjectNotExist =>
              /\ k = Len(rtrace) /\ ~rcompared
              /\ rret = [val |-> RestoreTarget, err |-> Nil]
         /\ rtrace[k].out = ErrAttrs => rret = [val |-> <<>>, err |-> ErrAttrs]
    /\ \A k \in Calls("openStats") :
         rtrace[k].out = "error" => rret = [val |-> <<>>, err |-> ErrOpenStats]
    /\ \A k \in Calls("decode") :
         rtrace[k].out = "error" => rret = [val |-> <<>>, err |-> ErrDecode]

\* The import succeeded and there is no statistics artifact.
C24_Witness ==
  /\ RestoreDone /\ rret.err = Nil
  /\ \E k \in Calls("importWait") : rtrace[k].out = "ok"
  /\ rtrace[Len(rtrace)].call = "attrs"
  /\ rtrace[Len(rtrace)].out = ErrObjectNotExist

\* C28: the users Restore ranges over are a list of exported names, and no
\* user of the empty name is looked up.
C28_UsersAreTheExportedNames ==
  /\ rpc \in {"getUser", "insertUser", "userWait"} => rusers \in UserNameLists
  /\ \A k \in Calls("getUser") : rtrace[k].arg # NoString

\* ------------------------------------------ claims: a failing Backup run

TempRoles == {RoleObjectCreator, RoleObjectViewer}
NoGrantStep ==
  \A sa \in {SvcAcctOf(i) : i \in InstanceNames}, role \in TempRoles :
    Entries(policy', SvcAcctMember(sa), role) <= Entries(policy, SvcAcctMember(sa), role)

\* C25: once a step of Backup has failed the result holds an error, and
\* from then on no instance is taken from those not yet visited, nothing is
\* granted, no artifact is written or removed and no export is triggered;
\* no instance still to visit has an artifact.
C25_FailureEndsTheRun ==
  /\ [](bfirst # Nil => rerr # Nil)
  /\ [](\A f \in bwritten : f.instance \notin btodo)
  /\ [][bfirst # Nil =>
          /\ btodo' = btodo /\ bcur' = bcur
          /\ NoGrantStep
          /\ bwritten' = bwritten
          /\ blocs' = blocs /\ wpc' = wpc]_vars

\* The export of the first instance failed after its user list was written;
\* the second instance was never visited.
C25_Witness ==
  /\ BackupDone
  /\ bfirst = ErrExport /\ rerr # Nil
  /\ bcur = "i1" /\ btodo = {"i2"}
  /\ \E f \in bwritten : f.instance = "i1" /\ f.kind = "users"
  /\ \A role \in TempRoles : ~HasRole(policy, SvcAcctMember(SvcAcctOf("i2")), role)

\* C26: the error Backup returns is the first error of the run.
C26_FirstErrorReturned == BackupDone => rerr = bfirst

\* C27: in temporary mode, while an instance is being processed no service
\* account obtained for an earlier instance holds a temporary role.
C27_RevokedBeforeNextInstance ==
  (bopts.EnsureIamBindingsTemp /\ bpc \notin {"start", "loop", "defers", "done"}) =>
    \A sa \in bobtained \ {SvcAcctOf(bcur)}, role \in TempRoles :
      ~HasRole(policy, SvcAcctMember(sa), role)

\* ------------------------------------ claims: long-running operations

BackupAwaits == bpc = "exportWait"
RestoreAwaits == rpc \in {"instWait", "dbWait", "userWait", "importWait"}

\* The locations of the first n reported databases other than mysql and
\* postgres, in the order they were reported.
FirstExports(n) ==
  LET dbs == SelectSeq(breported[bcur], LAMBDA d : d \notin SystemDatabases)
  IN [k \in 1..n |-> DatabaseLocation(bloc, <<dbs[k]>>)]

\* C30: an operation is awaited only by the run that triggered it, a
\* trigger is issued only when no wait is under way, a wait ends only by
\* returning, and the exports triggered so far for an instance are those of
\* its first databases in the order they were enumerated.
C30_OneOperationAtATime ==
  /\ [](wpc # "idle" => (BackupAwaits \/ RestoreAwaits))
  /\ [](bpc \in {"exportDb", "exportWait"} =>
          /\ Len(blocs) = (IF BackupAwaits THEN bdbIdx ELSE bdbIdx - 1)
          /\ blocs = FirstExports(Len(blocs)))
  /\ [][/\ (wpc # "call" /\ wpc' = "call") => wpc = "idle"
        /\ (wpc # "idle" /\ wpc' = "idle") => wpc = "ret"]_vars

\* The export of the second database is polled after the first one's wait
\* returned.
C30_Witness ==
  /\ BackupAwaits /\ bdbIdx = 2 /\ Len(blocs) = 2
  /\ wpc = "sleep" /\ nFetch = 1

\* ----------------------------------------------- claims: concurrent runs

RaceDone(p) == ~RaceRunning(p)
RaceHolds(sa) == HasRole(policy, SvcAcctMember(sa), RaceRole)
EventsOf(p, kind) == {k \in DOMAIN gevents : gevents[k].run = p /\ gevents[k].kind = kind}

\* Two runs each made one grant, for different principals, and each read
\* the policy before the other wrote it.
InterleavedGrants ==
  /\ \A p \in RaceRuns : RaceDone(p) /\ Len(gruns[p].prog) = 1
  /\ gruns["A"].prog[1].sa # gruns["B"].prog[1].sa
  /\ \A p \in RaceRuns : \E r \in EventsOf(p, "read") :
       /\ gevents[r].out = "ok"
       /\ \A q \in RaceRuns : \A w \in EventsOf(q, "write") : r < w

\* The write of the policy stored last.
LastStored ==
  LET ws == {k \in DOMAIN gevents : gevents[k].kind = "write" /\ gevents[k].out = "ok"}
  IN CHOOSE k \in ws : \A j \in ws : j <= k

\* C29: concurrent role-binding calls are not coordinated. Each call reads
\* the policy once and writes it at most once; when two grants for
\* different principals have each read the policy before the other wrote
\* it, the two principals never both hold the role afterwards; and after
\* the last stored write, if it was a revocation, its principal does not
\* hold the role, whichever runs granted it and have not revoked it.
C29_ConcurrentGrantorsLoseUpdates ==
  /\ \A p \in RaceRuns :
       /\ Cardinality(EventsOf(p, "read")) <= Len(gruns[p].prog)
       /\ Cardinality(EventsOf(p, "write")) <= Cardinality(EventsOf(p, "read"))
  /\ InterleavedGrants => \E p \in RaceRuns : ~RaceHolds(gruns[p].prog[1].sa)
  /\ (gversion > 0 /\ gevents[LastStored].op = "remove") => ~RaceHolds(gevents[LastStored].sa)

\* Both runs read the policy, then both wrote it, and only one of the two
\* principals holds the role.
C29_Witness ==
  /\ InterleavedGrants
  /\ \A p \in RaceRuns : EventsOf(p, "write") # {}
  /\ RaceHolds(gruns["B"].prog[1].sa) /\ ~RaceHolds(gruns["A"].prog[1].sa)

\* Run A has revoked the role that run B, for the same principal, was
\* granted and has not revoked.
RevokedUnderOtherRun ==
  /\ RaceDone("A") /\ gruns["A"].err = Nil /\ Len(gruns["A"].prog) = 2
  /\ gruns["B"].prog = <<[op |-> "add", sa |-> gruns["A"].prog[1].sa]>>
  /\ RaceDone("B") /\ gruns["B"].err = Nil
  /\ ~RaceHolds(gruns["B"].prog[1].sa)

\* C31: for each instance Backup exports the user list first, then (when
\* requested) the statistics, then the databases: a database export is only
\* triggered once the user list and the requested statistics artifacts of the
\* instance are written; when the user-list export or the statistics export
\* fails, the run ends with an error and no database export of that instance
\* has been triggered.
ExportingDatabases == bpc \in {"exportDb", "exportWait"} \/ blocs # <<>>

FetchFailed == wlast.err # Nil

C35_FetchErrorReturnedAtOnce ==
  /\ [](FetchFailed => (WaitReturned /\ wres = wlast.err /\ wres # Nil))
  /\ [][FetchFailed => (wpc' \notin {"select", "sleep", "fetch"} /\ nSleep' = nSleep)]_vars

\* The second fetch failed after a first one that reported RUNNING.
C35_Witness ==
  /\ FetchFailed /\ WaitReturned
  /\ nFetch = 2 /\ nSleep = 2
  /\ wres \in ApiErrors

\* C36 as claimed: a Backup in temporary mode that returns without error, on
\* a bucket no one else writes to, leaves the bucket policy as it found it:
\* the objectCreator and objectViewer bindings held before the run are still
\* held after it.
C36_PreheldBindingsKept ==
  (BackupDone /\ bopts.EnsureIamBindingsTemp /\ rerr = Nil) => policy = HeldPolicy

\* C40 as claimed: when the statistics artifact of the backup exists, a
\* Restore whose recomputation of the live statistics failed does not return
\* success.
StatsArtifactExists == \E k \in Calls("attrs") : rtrace[k].out = Nil
RecomputeFailed == \E k \in Calls("getStats") : rtrace[k].out = "error"

C40_NoSuccessWithoutLiveStatistics ==
  (RestoreDone /\ StatsArtifactExists /\ RecomputeFailed) => rret.err # Nil

\* C32 as claimed: a failure of any call of restore steps 1 to 8 is the last
\* call Restore makes: the run is returning (only the deferred cleanup is
\* left) with an error. In particular a lookup of the target database that
\* fails with an error other than not-found is not followed by the creation
\* of the database.
StepCalls ==
  {"getInstance", "savePassword", "accessSecret", "insertInstance", "instWait",
   "getDatabase", "readUsers", "getUser", "import", "importWait"}
StepFailures == {"error", "openfail", "readfail"}

C32_FailedStepEndsRestore ==
  \A k \in DOMAIN rtrace :
    (rtrace[k].call \in StepCalls /\ rtrace[k].out \in StepFailures) =>
      /\ k = Len(rtrace)
      /\ rpc \in {"defers", "done"}
      /\ rret.err # Nil

\* C38 as claimed: once Restore has triggered the import, the bucket whose
\* policy it granted the roles on is the bucket that holds the source
\* artifact, the one the import URI names and the user list was read from.
C38_GrantsOnTheSourceBucket ==
  \A k \in Calls("import") :
    /\ rtrace[k].arg = ropts.File
    /\ GrantBucket(ropts) = SourceBucket(ropts)

\* C37: Backup and Restore agree on the artifact addresses: for every
\* database location a backup returns, the location Restore parses from it
\* names the bucket of the backup, and the user-list path and the statistics
\* path Restore derives from it are paths the backup wrote the user list of
\* that instance and (when statistics were exported) the statistics to.
WrittenAt(kind, path) == \E f \in bwritten : f.kind = kind /\ f.path = path

C37_RestoreDerivesTheWrittenPaths ==
  BackupDone =>
    \A i \in DOMAIN backupPaths :
      LET backLocation == NewLocation(backupPaths[i]) IN
      /\ ~backLocation.panic
      /\ backLocation.Bucket = BackupBucket
      /\ \E f \in bwritten :
           /\ f.kind = "users" /\ <<f.instance>> = backLocation.Instance
           /\ f.path = UserLocation(backLocation)
      /\ bopts.ExportStats =>
           WrittenAt("stats", StatsLocation(backLocation, backLocation.Database))

\* Two instances were backed up with statistics and compression.
C37_Witness ==
  /\ BackupDone /\ rerr = Nil
  /\ bopts.ExportStats /\ bopts.Compression
  /\ Len(backupPaths) >= 2
  /\ \E i, j \in DOMAIN backupPaths :
       NewLocation(backupPaths[i]).Instance # NewLocation(backupPaths[j]).Instance

\* C33 as claimed: every call of WaitForSQLOperation eventually returns.
C33_EveryWaitReturns == <>WaitReturned

\* C34: with a non-empty filter EnumerateCloudSQLDatabaseInstances never
\* calls Instances.List and a successful result holds exactly the filter's
\* instance; with an empty filter the keys of a successful result are exactly
\* the instances the project lists; when listing the databases of an
\* instance fails the error is returned with no map, not the part built so
\* far.
EnumReturned == eret.returned
ListedInstances == {eproject[k] : k \in DOMAIN eproject}

C34_EnumeratesFilterOrProject ==
  /\ einstanceID # "" => elistCalls = 0
  /\ EnumReturned =>
       /\ eret.err = Nil =>
            /\ einstanceID # "" => DOMAIN eret.instances = {einstanceID}
            /\ einstanceID = "" =>
                 elistCalls = 1 /\ DOMAIN eret.instances = ListedInstances
       /\ eret.err # Nil => eret.instances = <<>>

\* Listing the databases of the second of two listed instances failed after
\* the first was stored in the map.
C34_Witness ==
  /\ EnumReturned
  /\ einstanceID = "" /\ Len(eproject) = 2
  /\ eret.err = ErrListDatabases
  /\ DOMAIN einstances = {eproject[1]}
  /\ eret.instances = <<>>

\* C39 as claimed: across successive Restore runs, whenever the target
\* instance exists, the secret under its uppercased name exists and its only
\* version is the root password the instance was created with: the instance
\* is never created without its credential having been persisted.
SecretHoldsRootPassword ==
  ssecret.exists /\ ssecret.versions = <<sinstance.RootPassword>>

C39_InstanceHasItsSecret == sinstance.exists => SecretHoldsRootPassword

\* C39 as amended: when the run that created the target instance was to
\* store the secret, the secret exists and its only version is the root
\* password the instance was created with, in every later run too; a run that
\* is to store the secret reaches the creation of the instance only with a
\* secret whose only version is the new password, and a later run that finds
\* the instance and reads the secret continues with that root password.
C39_StoredInstanceHasItsSecret ==
  /\ (sinstance.exists /\ sinstance.stored) => SecretHoldsRootPassword
  /\ (spc = "insertInstance" /\ sopts) =>
       ssecret.exists /\ ssecret.versions = <<spassword>>
  /\ (spc = "done" /\ serr = Nil /\ sinstance.exists /\ sinstance.stored) =>
       spassword = sinstance.RootPassword

\* The first run persisted a password and failed to create the instance, the
\* second replaced the secret and created the instance, the third found the
\* instance and read its password from the secret.
C39_Witness ==
  /\ srun = 3 /\ spc = "done" /\ serr = Nil
  /\ sinstance.exists /\ sinstance.stored /\ sinstance.RootPassword = 2
  /\ ssecret.versions = <<2>>
  /\ spassword = 2

====
